---- MODULE Spec2Model ----
(***************************************************************************)
(* Verification model of app-ship/events-handler: the Slack and email      *)
(* webhook dispatchers, Slack signature verification, the detached publish *)
(* units and the Pub/Sub topic provisioning / publish service.             *)
(*                                                                         *)
(* Python values are modelled as follows.  None and an absent JSON key or  *)
(* HTTP header are the string None.  A text (Slack text, email body) is an *)
(* Optional: <<>> is None and <<s>> is the string s, s a sequence of       *)
(* characters, so that str.strip() is computed and not assumed.  Time is   *)
(* counted in ticks, TicksPerSecond ticks to a second, because time.time() *)
(* and the timestamp header are floats.                                    *)
(***************************************************************************)
EXTENDS Integers, Sequences, FiniteSets, TLC

VARIABLES
    slack_signing_secret, \* settings.slack_signing_secret of the process
    publisher,            \* PubSubService._publisher: "uninit" or "ready"
    nextId,               \* number of the next inbound request
    inflight,             \* the request whose handler returned, its response unsent
    resp,                 \* request number -> HTTP response produced for it
    queue,                \* BackgroundTasks not yet run, in order
    unit,                 \* request number -> outcome of its detached unit
    topics,               \* topic paths the broker holds
    trace,                \* handler returns and broker calls, in order of occurrence
    vIn, vOut,            \* a direct call of verify_slack_signature
    rcPc, rcArg, rcRes,   \* racing callers of create_topic_if_not_exists
    created,              \* topic path -> number of creations by the broker
    xIn, xOut,            \* a direct call of extract_email_content
    mailIn, mailOut,      \* a Gmail notification delivered to the process, its outcome
    lsPc, lsRes,          \* callers of the EmailSubscriptionService: position, locals
    is_running,           \* EmailSubscriptionService._is_running of each caller
    subscription          \* the broker holds the email-replies subscription

vars == <<slack_signing_secret, publisher, nextId, inflight, resp,
          queue, unit, topics, trace, vIn, vOut, rcPc, rcArg, rcRes, created,
          xIn, xOut, mailIn, mailOut, lsPc, lsRes, is_running, subscription>>

pipelineVars == <<slack_signing_secret, publisher, nextId, inflight,
                  resp, queue, unit, trace>>
verifyVars == <<vIn, vOut>>
raceVars == <<rcPc, rcArg, rcRes, created>>
mailVars == <<xIn, xOut, mailIn, mailOut>>
listenerVars == <<lsPc, lsRes, is_running, subscription>>

-----------------------------------------------------------------------------
(* Bounds of the model *)

MaxRequests == 2     \* inbound requests per behaviour
MaxTextLen == 2      \* characters in a Slack text / email body
MaxScript == 2       \* broker publish outcomes fixed ahead per publish_message
MaxLines == 3        \* lines in the plain-text body of a mail
NumCallers == 2      \* racing callers of create_topic_if_not_exists

(* Program constants *)

ReplayWindowSeconds == 300   \* 60 * 5
TicksPerSecond == 2

-----------------------------------------------------------------------------
(* Python values *)

None == "None"
NonStr == "<non-str>"          \* a JSON value that is not a string

Truthy(v) == v \notin {None, ""}

Abs(x) == IF x < 0 THEN -x ELSE x

Chars == {" ", "a"}
IsSpace(c) == c \in {" ", "\t", "\n", "\r"}

Strings == UNION {[1..n -> Chars] : n \in 0..MaxTextLen}
NoText == <<>>
Some(s) == <<s>>
Texts == {NoText} \cup {Some(s) : s \in Strings}

RECURSIVE LStrip(_)
LStrip(s) == IF s = <<>> THEN <<>>
             ELSE IF IsSpace(Head(s)) THEN LStrip(Tail(s)) ELSE s

RECURSIVE RStrip(_)
RStrip(s) == IF s = <<>> THEN <<>>
             ELSE IF IsSpace(s[Len(s)]) THEN RStrip(SubSeq(s, 1, Len(s) - 1)) ELSE s

Strip(s) == RStrip(LStrip(s))

\* `not text or not text.strip()`
TextIsEmpty(t) == t = NoText \/ t[1] = <<>> \/ Strip(t[1]) = <<>>

\* dict.update: the keys of m override those of a
Update(a, m) == m @@ a

-----------------------------------------------------------------------------
(* Responses *)

OkResponseNoEcho(message, challenge) ==
    [status_code |-> 200, status |-> "ok", message |-> message,
     challenge |-> None, error_code |-> None]

OkResponse(message, challenge) ==
    [status_code |-> 200, status |-> "ok", message |-> message,
     challenge |-> challenge, error_code |-> None]

\* email_webhook._create_error_response:
\* JSONResponse(status_code, content=error_response.model_dump(mode="json"))
_create_error_response(status_code, error_message, error_code) ==
    [status_code |-> status_code, status |-> None, message |-> error_message,
     challenge |-> None, error_code |-> error_code]

QueuedSlack == "Slack event received and queued for processing"
QueuedEmail == "Email event received and queued for processing"

-----------------------------------------------------------------------------
(* Slack signature verification *)

\* "v0=" + hmac.new(secret, "v0:{timestamp}:{body}", sha256).hexdigest().
\* The MAC is collision free: it is the tuple of what it is computed from.
SlackSignature(secret, tsk, tsv, body) ==
    [scheme |-> "v0=", key |-> secret, tsk |-> tsk, tsv |-> tsv, body |-> body]


\* float(timestamp) raises ValueError
FloatRaises(tsk) == tsk = "malformed"

\* abs(time.time() - float(timestamp)) > 60 * 5; every comparison with nan is False
StaleInclusive(tsk, tsv, now) ==
    tsk = "numeric" /\ Abs(now - tsv) >= ReplayWindowSeconds * TicksPerSecond

Stale(tsk, tsv, now) ==
    tsk = "numeric" /\ Abs(now - tsv) > ReplayWindowSeconds * TicksPerSecond

\* hmac.compare_digest(my_signature, signature) raises TypeError on a str
\* with non-ASCII characters
CompareDigestRaises(signature) == signature.scheme = "<non-ascii>"

\* how a block of code ends: with a value, or with an exception raised
Value(v) == [raised |-> None, value |-> v]
Exception(exc) == [raised |-> exc, value |-> FALSE]

\* the try block of verify_slack_signature
SignatureChecked(tsk, tsv, signature, body, signing_secret, now) ==
    IF tsk \in {None, ""} \/ ~Truthy(signature.scheme) THEN Value(FALSE)
    ELSE IF FloatRaises(tsk) THEN Exception("ValueError")
    ELSE IF Stale(tsk, tsv, now) THEN Value(FALSE)
    ELSE IF ~body.decodable THEN Exception("UnicodeDecodeError")
    ELSE IF CompareDigestRaises(signature) THEN Exception("TypeError")
    ELSE Value(SlackSignature(signing_secret, tsk, tsv, body) = signature)

\* `except Exception as e: ... return False`
VerifyCaughtNothing(outcome) == outcome

VerifyCaught(outcome) ==
    IF outcome.raised # None THEN Value(FALSE) ELSE outcome

verify_slack_signature(tsk, tsv, signature, body, signing_secret, now) ==
    VerifyCaught(SignatureChecked(tsk, tsv, signature, body, signing_secret, now)).value

-----------------------------------------------------------------------------
(* Inbound payloads.  A body is the record of what the handlers read of it. *)

NoEvent == [type |-> None]

Body(decodable, json, type, challenge, token, wrapper_ok, event) ==
    [decodable |-> decodable, json |-> json, type |-> type,
     challenge |-> challenge, token |-> token, wrapper_ok |-> wrapper_ok,
     event |-> event]

UndecodableBody == Body(FALSE, "invalid", None, None, None, FALSE, NoEvent)
InvalidJsonBody == Body(TRUE, "invalid", None, None, None, FALSE, NoEvent)
NonDictBody == Body(TRUE, "list", None, None, None, FALSE, NoEvent)

\* the X-Slack-Signature header absent, or present and empty
AbsentSignature ==
    [scheme |-> None, key |-> None, tsk |-> None, tsv |-> 0, body |-> InvalidJsonBody]
EmptySignature ==
    [scheme |-> "", key |-> None, tsk |-> None, tsv |-> 0, body |-> InvalidJsonBody]
\* a header value with a character outside ASCII
NonAsciiSignature ==
    [scheme |-> "<non-ascii>", key |-> None, tsk |-> None, tsv |-> 0,
     body |-> InvalidJsonBody]

OtherTypeBodies ==
    {Body(TRUE, "dict", t, None, None, FALSE, NoEvent) : t \in {None, "other"}}

ChallengeBodies ==
    {Body(TRUE, "dict", "url_verification", c, k, FALSE, NoEvent) :
        c \in {None, "", "ch1", "ch2", NonStr}, k \in {None, "tok"}}

ChannelUser == {<<None, None>>, <<"C1", "U1">>}

SlackRawEvents ==
    {[type |-> t, bot_id |-> b, app_id |-> a, subtype |-> st, text |-> x,
      channel |-> cu[1], user |-> cu[2]] :
        t \in {"message", "app_mention", "reaction_added"},
        b \in {None, "", "B1"}, a \in {None, "A1"},
        st \in {None, "message_changed"}, x \in Texts, cu \in ChannelUser}

SlackCallbackBodies ==
    {Body(TRUE, "dict", "event_callback", None, "tok", ok, e) :
        ok \in BOOLEAN, e \in SlackRawEvents}

FromTo == {<<None, None>>, <<"a@x", "b@y">>}

EmailRawEvents ==
    {[type |-> t, body |-> x, from_email |-> ft[1], to_email |-> ft[2],
      org_id |-> o] :
        t \in {"email_reply", "email_bounce"}, x \in Texts, ft \in FromTo,
        o \in {None, "", "acme-42"}}

EmailCallbackBodies ==
    {Body(TRUE, "dict", "email_callback", None, "tok", ok, e) :
        ok \in BOOLEAN, e \in EmailRawEvents}

CommonBodies ==
    {UndecodableBody, InvalidJsonBody, NonDictBody} \cup OtherTypeBodies
        \cup ChallengeBodies

SlackBodies == CommonBodies \cup SlackCallbackBodies
EmailBodies == CommonBodies \cup EmailCallbackBodies

-----------------------------------------------------------------------------
(* Pydantic models *)

\* SlackEvent(**raw): the model declares no subtype field and pydantic drops
\* the keys a model does not declare.
SlackEvent(raw) ==
    [type |-> raw.type, user |-> raw.user, channel |-> raw.channel,
     text |-> raw.text, bot_id |-> raw.bot_id, app_id |-> raw.app_id]

SlackEventWrapper(body) ==
    [source |-> "slack", team_id |-> "T1", event |-> SlackEvent(body.event)]

EmailEvent(raw) ==
    [type |-> raw.type, from_email |-> raw.from_email, to_email |-> raw.to_email,
     body |-> raw.body, org_id |-> raw.org_id]

EmailEventWrapper(body) ==
    [source |-> "email", project_id |-> "P1", event |-> EmailEvent(body.event)]

NoWrapper == [source |-> None]

\* hasattr(obj, name)
HasAttr(obj, name) == name \in DOMAIN obj

-----------------------------------------------------------------------------
(* Webhook handlers.  A handler yields its response, how the publish unit  *)
(* is dispatched ("none", "background": BackgroundTasks.add_task, "inline": *)
(* awaited before the response) and the event wrapper handed to it.        *)

Handled(response) ==
    [response |-> response, dispatch |-> "none", wrapper |-> NoWrapper]

Dispatched(response, how, wrapper) ==
    [response |-> response, dispatch |-> how, wrapper |-> wrapper]

InternalError(message) == _create_error_response(500, message, "INTERNAL_ERROR")

\* a call that raised exc, in the place of the response it was to return
ExceptionOf(exc) ==
    [status_code |-> 0, status |-> None, message |-> exc, challenge |-> None,
     error_code |-> "<exception>"]

IsException(response) == response.error_code = "<exception>"

\* slack_webhook._create_error_response:
\* JSONResponse(status_code, content=error_response.dict()).  dict() leaves
\* ErrorResponse.timestamp a datetime, and JSONResponse renders its content
\* with json.dumps when it is constructed: the call raises TypeError.
slack_create_error_response(status_code, error_message, error_code) ==
    ExceptionOf("TypeError")

\* api.py general_exception_handler: the answer to a request whose handler
\* let an exception escape
general_exception_handler ==
    [status_code |-> 500, status |-> None, message |-> "An unexpected error occurred",
     challenge |-> None, error_code |-> "INTERNAL_ERROR"]

\* `return _create_error_response(...)` inside the try of slack_webhook: an
\* exception it raises is taken by `except Exception`, which returns
\* _create_error_response(500, ...) in its turn; what that raises escapes
SlackError(status_code, error_message, error_code) ==
    LET first == slack_create_error_response(status_code, error_message, error_code)
        second == slack_create_error_response(
                      500, "Internal server error occurred while processing Slack webhook",
                      "INTERNAL_ERROR")
    IN  IF ~IsException(first) THEN first
        ELSE IF ~IsException(second) THEN second
        ELSE general_exception_handler

\* The Slack filter chain: the message of the first applicable skip, or None
SlackSkipReasonNoBotCheck(event) ==
    IF event.type \notin {"message", "app_mention"} THEN "Unsupported event skipped"
    ELSE IF HasAttr(event, "subtype") /\ Truthy(event.subtype)
        THEN "Message subtype skipped"
    ELSE IF TextIsEmpty(event.text) THEN "Empty message skipped"
    ELSE None

SlackSkipReason(event) ==
    IF Truthy(event.bot_id) \/ Truthy(event.app_id) THEN "Bot event skipped"
    ELSE IF event.type \notin {"message", "app_mention"} THEN "Unsupported event skipped"
    ELSE IF HasAttr(event, "subtype") /\ Truthy(event.subtype)
        THEN "Message subtype skipped"
    ELSE IF TextIsEmpty(event.text) THEN "Empty message skipped"
    ELSE None

\* background_tasks.add_task(publish_slack_event_background, event_wrapper)
SlackScheduleInline(wrapper) ==
    Dispatched(OkResponse(QueuedSlack, None), "inline", wrapper)

SlackSchedule(wrapper) ==
    Dispatched(OkResponse(QueuedSlack, None), "background", wrapper)

SlackEventCallback(body) ==
    IF ~body.wrapper_ok
    THEN Handled(SlackError(400, "Invalid event format", "INVALID_EVENT"))
    ELSE LET wrapper == SlackEventWrapper(body)
             reason == SlackSkipReason(wrapper.event)
         IN  IF reason # None THEN Handled(OkResponse(reason, None))
             ELSE SlackSchedule(wrapper)

\* the `else` of the classification by payload_data.get("type")
UnknownEventTypeRejected(body) ==
    Handled(_create_error_response(400, "Unknown event type", "UNKNOWN_TYPE"))

UnknownEventType(body) == Handled(OkResponse("Unknown event type", None))

\* `if settings.slack_signing_secret: if not verify_slack_signature(...)`
SignatureCheckSkipped(req, signing_secret, now) == FALSE

SignatureRejectedWithoutSecret(req, signing_secret, now) ==
    ~verify_slack_signature(req.tsk, req.tsv, req.sig, req.body, signing_secret, now)

SignatureRejected(req, signing_secret, now) ==
    /\ Truthy(signing_secret)
    /\ ~verify_slack_signature(req.tsk, req.tsv, req.sig, req.body, signing_secret, now)

slack_webhook(req, signing_secret, now) ==
    LET body == req.body IN
    IF SignatureRejected(req, signing_secret, now)
    THEN Handled(SlackError(401, "Invalid signature", "INVALID_SIGNATURE"))
    ELSE IF ~body.decodable
    THEN Handled(SlackError(500, "Internal server error occurred while processing Slack webhook", "INTERNAL_ERROR"))
    ELSE IF body.json = "invalid"
    THEN Handled(SlackError(400, "Invalid JSON payload", "INVALID_JSON"))
    ELSE IF body.json # "dict"
    THEN Handled(SlackError(500, "Internal server error occurred while processing Slack webhook", "INTERNAL_ERROR"))
    ELSE IF body.type = "url_verification"
    THEN IF ~Truthy(body.challenge)
         THEN Handled(SlackError(400, "Missing challenge", "MISSING_CHALLENGE"))
         ELSE IF body.challenge = NonStr
         THEN Handled(SlackError(500, "Internal server error occurred while processing Slack webhook", "INTERNAL_ERROR"))
         ELSE Handled(OkResponse("URL verification challenge", body.challenge))
    ELSE IF body.type = "event_callback" THEN SlackEventCallback(body)
    ELSE UnknownEventType(body)

\* The email filter chain
EmailSkipReasonNoBodyCheck(event) ==
    IF event.type \notin {"email_reply"} THEN "Unsupported event skipped"
    ELSE None

EmailSkipReason(event) ==
    IF event.type \notin {"email_reply"} THEN "Unsupported event skipped"
    ELSE IF TextIsEmpty(event.body) THEN "Empty email message skipped"
    ELSE None

\* background_tasks.add_task(publish_email_event_background, event_wrapper)
EmailSchedule(wrapper) ==
    Dispatched(OkResponse(QueuedEmail, None), "background", wrapper)

EmailEventCallbackEager(body) ==
    IF ~body.wrapper_ok
    THEN Handled(_create_error_response(400, "Invalid event format", "INVALID_EVENT"))
    ELSE LET wrapper == EmailEventWrapper(body)
             reason == EmailSkipReason(wrapper.event)
         IN  IF reason # None
             THEN Dispatched(OkResponse(reason, None), "background", wrapper)
             ELSE EmailSchedule(wrapper)

EmailEventCallback(body) ==
    IF ~body.wrapper_ok
    THEN Handled(_create_error_response(400, "Invalid event format", "INVALID_EVENT"))
    ELSE LET wrapper == EmailEventWrapper(body)
             reason == EmailSkipReason(wrapper.event)
         IN  IF reason # None THEN Handled(OkResponse(reason, None))
             ELSE EmailSchedule(wrapper)

email_webhook(req) ==
    LET body == req.body IN
    IF ~body.decodable
    THEN Handled(InternalError("Internal server error occurred while processing Email webhook"))
    ELSE IF body.json = "invalid"
    THEN Handled(_create_error_response(400, "Invalid JSON", "INVALID_JSON"))
    ELSE IF body.json # "dict"
    THEN Handled(InternalError("Internal server error occurred while processing Email webhook"))
    ELSE IF body.type = "url_verification"
    THEN IF body.token \in {None, NonStr} \/ body.challenge \in {None, NonStr}
         THEN Handled(_create_error_response(400, "Invalid challenge payload", "INVALID_CHALLENGE"))
         ELSE Handled(OkResponse(None, body.challenge))
    ELSE IF body.type = "email_callback" THEN EmailEventCallback(body)
    ELSE UnknownEventType(body)

-----------------------------------------------------------------------------
(* The broker (Google Cloud Pub/Sub), as the service sees it *)

SLACK_REPLY_EVENT_TOPIC == "slack-reply-event"
EMAIL_REPLY_EVENT_TOPIC == "stage-email-reply-topic"
EMAIL_TARGET_TOPIC == "app-email-reply-event"

\* publisher.topic_path(project_id, topic_id)
TopicPath(topic_id) == <<"projects", "P1", "topics", topic_id>>

CreateFaults == {"none", "PermissionDenied", "ServiceUnavailable"}

\* publisher.create_topic: atomic at the broker
BrokerCreateTopic(held, topic_path, fault) ==
    IF fault # "none" THEN fault
    ELSE IF topic_path \in held THEN "AlreadyExists"
    ELSE "Created"

TransientErrors == {"DeadlineExceeded", "ServiceUnavailable"}
PermanentErrors == {"PermissionDenied", "InvalidArgument", "NotFound"}
\* what publisher.publish(...).result(timeout) yields or raises
PublishOutcomes == {"ok", "TimeoutError"} \cup TransientErrors \cup PermanentErrors

-----------------------------------------------------------------------------
(* PubSubService and GCPPubSubClient *)

Handle(topic_id, was_created) ==
    [topic_path |-> TopicPath(topic_id), topic_id |-> topic_id,
     created |-> was_created]

NoHandle == [topic_path |-> <<>>, topic_id |-> None, created |-> FALSE]

Returned(handle) == [raised |-> None, handle |-> handle]
Raised(exception) == [raised |-> exception, handle |-> NoHandle]

\* PubSubService.create_topic_if_not_exists, from the broker's answer on
CreateTopicReturnStrict(topic_id, answer) ==
    IF answer = "Created" THEN Returned(Handle(topic_id, TRUE))
    ELSE Raised("TopicCreationException")

CreateTopicReturnLenient(topic_id, answer) ==
    Returned(Handle(topic_id, answer = "Created"))

CreateTopicReturn(topic_id, answer) ==
    IF answer = "Created" THEN Returned(Handle(topic_id, TRUE))
    ELSE IF answer = "AlreadyExists" THEN Returned(Handle(topic_id, FALSE))
    ELSE Raised("TopicCreationException")

\* GCPPubSubClient.create_topic re-raises what the broker raised
ClientCreateTopicReturn(topic_id, answer) ==
    IF answer = "Created" THEN Returned(Handle(topic_id, TRUE))
    ELSE Raised(answer)

\* GCPPubSubClient.create_topic_if_not_exists after AlreadyExists: get_topic,
\* whose failure is only logged
ClientExistingReturn(topic_id, get_topic_ok) == Returned(Handle(topic_id, FALSE))

\* publish_message: whether a failed publish is tried again.  Both
\* implementations build a Retry object, never pass it on, and convert or
\* re-raise whatever the one publish raised.
PublishRetryableAlways(error) == TRUE

PublishRetryable(error) == FALSE

\* The publish attempts of one publish_message call, from attempt k on;
\* script[k] is what the broker does to attempt k.
RECURSIVE PublishAttempts(_, _)
PublishAttempts(script, k) ==
    IF script[k] = "ok" THEN [attempts |-> k, error |-> None]
    ELSE IF PublishRetryable(script[k]) /\ k < Len(script)
         THEN PublishAttempts(script, k + 1)
         ELSE [attempts |-> k, error |-> script[k]]

\* message_attributes.update({"source": ..., "version": ...})
ServiceMetadata == [source |-> "events-handler", version |-> "1.0.0"]

-----------------------------------------------------------------------------
(* The publish units *)

\* `v or ""`
OrEmpty(v) == IF Truthy(v) THEN v ELSE ""

\* publish_slack_event: attributes for message routing
SlackAttributesSwapped(wrapper) ==
    [source_service |-> "events-handler", event_type |-> "slack_reply",
     team_id |-> wrapper.team_id,
     channel_id |-> OrEmpty(wrapper.event.user),
     user_id |-> OrEmpty(wrapper.event.channel),
     message_type |-> wrapper.event.type]

SlackAttributes(wrapper) ==
    [source_service |-> "events-handler", event_type |-> "slack_reply",
     team_id |-> wrapper.team_id,
     channel_id |-> OrEmpty(wrapper.event.channel),
     user_id |-> OrEmpty(wrapper.event.user),
     message_type |-> wrapper.event.type]

\* publish_email_event: attributes for message routing
EmailAttributesOrgIdAlways(wrapper) ==
    [source_service |-> "events-handler", event_type |-> "email_reply",
     project_id |-> wrapper.project_id,
     from_email |-> OrEmpty(wrapper.event.from_email),
     to_email |-> OrEmpty(wrapper.event.to_email),
     message_type |-> wrapper.event.type,
     org_id |-> OrEmpty(wrapper.event.org_id)]

EmailAttributes(wrapper) ==
    LET base == [source_service |-> "events-handler", event_type |-> "email_reply",
                 project_id |-> wrapper.project_id,
                 from_email |-> OrEmpty(wrapper.event.from_email),
                 to_email |-> OrEmpty(wrapper.event.to_email),
                 message_type |-> wrapper.event.type]
    IN  IF Truthy(wrapper.event.org_id)
        THEN Update(base, [org_id |-> wrapper.event.org_id])
        ELSE base

\* EmailSubscriptionService._publish_to_target_topic: attributes for message routing
SubscriptionAttributes(wrapper) ==
    [source_service |-> "events-handler", event_type |-> "email_reply",
     project_id |-> wrapper.project_id,
     from_email |-> OrEmpty(wrapper.event.from_email),
     to_email |-> OrEmpty(wrapper.event.to_email),
     message_type |-> wrapper.event.type]

TopicOf(wrapper) ==
    IF wrapper.source = "slack" THEN SLACK_REPLY_EVENT_TOPIC
    ELSE IF wrapper.source = "email_subscription" THEN EMAIL_TARGET_TOPIC
    ELSE EMAIL_REPLY_EVENT_TOPIC

AttributesOf(wrapper) ==
    IF wrapper.source = "slack" THEN SlackAttributes(wrapper)
    ELSE IF wrapper.source = "email_subscription" THEN SubscriptionAttributes(wrapper)
    ELSE EmailAttributes(wrapper)

\* An entry of the trace: a broker call made on behalf of request id
BrokerCall(op, id, topic_id, outcome, wrapper, attributes) ==
    [op |-> op, req |-> id, topic |-> topic_id, outcome |-> outcome,
     wrapper |-> wrapper, attributes |-> attributes]

\* An entry of the trace: the handler of request id returned its response
ResponseReturned(id) ==
    [op |-> "response", req |-> id, topic |-> None, outcome |-> "returned",
     wrapper |-> NoWrapper, attributes |-> <<>>]

PublishOutcome(held, publisher_state, calls, raised, cause, message_id, attempts, script) ==
    [held |-> held, publisher |-> publisher_state, calls |-> calls,
     raised |-> raised, cause |-> cause, message_id |-> message_id,
     attempts |-> attempts, script |-> script]

\* publish_slack_event / publish_email_event for the request id, run to its
\* end: create_topic_if_not_exists, then publish_message (which ensures the
\* topic again and publishes).  env is what the credentials and the broker
\* do: authOk, the faults f1 and f2 of the two create calls, the publish script.
PublishEvent(wrapper, id, held, publisher_state, env) ==
    LET topic_id == TopicOf(wrapper)
        path == TopicPath(topic_id)
        attributes == Update(AttributesOf(wrapper), ServiceMetadata)
        a1 == BrokerCreateTopic(held, path, env.f1)
        r1 == CreateTopicReturn(topic_id, a1)
        held1 == IF a1 = "Created" THEN held \cup {path} ELSE held
        c1 == BrokerCall("create_topic", id, topic_id, a1, NoWrapper, <<>>)
        a2 == BrokerCreateTopic(held1, path, env.f2)
        r2 == CreateTopicReturn(topic_id, a2)
        held2 == IF a2 = "Created" THEN held1 \cup {path} ELSE held1
        c2 == BrokerCall("create_topic", id, topic_id, a2, NoWrapper, <<>>)
        pa == PublishAttempts(env.script, 1)
        pubs == [k \in 1..pa.attempts |->
                    BrokerCall("publish", id, topic_id, env.script[k], wrapper, attributes)]
    IN  IF publisher_state = "uninit" /\ ~env.authOk
        THEN PublishOutcome(held, "uninit", <<>>, "PubSubServiceException",
                            "AuthenticationException", None, 0, <<>>)
        ELSE IF r1.raised # None
        THEN PublishOutcome(held1, "ready", <<c1>>, "PubSubServiceException",
                            r1.raised, None, 0, <<>>)
        ELSE IF r2.raised # None
        THEN PublishOutcome(held2, "ready", <<c1, c2>>, "PubSubServiceException",
                            "MessagePublishException", None, 0, <<>>)
        ELSE IF pa.error # None
        THEN PublishOutcome(held2, "ready", <<c1, c2>> \o pubs, "PubSubServiceException",
                            "MessagePublishException", None, pa.attempts, env.script)
        ELSE PublishOutcome(held2, "ready", <<c1, c2>> \o pubs, None, None, "mid",
                            pa.attempts, env.script)

\* publish_*_event_background: what escapes `except Exception` (nothing)
BackgroundEscapesRethrow(raised) == raised

BackgroundEscapes(raised) == None

NoUnit ==
    [state |-> "none", logged |-> None, escaped |-> None, message_id |-> None,
     attempts |-> 0, script |-> <<>>, accepted |-> FALSE]

QueuedUnit == [NoUnit EXCEPT !.state = "queued"]

\* the unit of a request, once run: what it logged and what escaped it
DoneUnit(outcome) ==
    [state |-> "done", logged |-> outcome.raised,
     escaped |-> BackgroundEscapes(outcome.raised),
     message_id |-> outcome.message_id, attempts |-> outcome.attempts,
     script |-> outcome.script,
     accepted |-> outcome.cause # "AuthenticationException" /\
                  \A i \in 1..Len(outcome.calls) :
                     outcome.calls[i].outcome \in {"ok", "Created", "AlreadyExists"}]

-----------------------------------------------------------------------------
(* Inbound requests *)

BaseNow == 2000
Window == ReplayWindowSeconds * TicksPerSecond

NowValues == {BaseNow, BaseNow + 1}

Request(endpoint, tsk, tsv, sig, body) ==
    [endpoint |-> endpoint, tsk |-> tsk, tsv |-> tsv, sig |-> sig, body |-> body]

NoRequest == Request(None, None, 0, AbsentSignature, InvalidJsonBody)

\* Slack requests by what their two headers hold
SlackRequest(headers, body) ==
    CASE headers = "none" ->
            Request("slack", None, 0, AbsentSignature, body)
      [] headers = "signed" ->
            Request("slack", "numeric", BaseNow,
                    SlackSignature("s1", "numeric", BaseNow, body), body)
      [] headers = "forged" ->
            Request("slack", "numeric", BaseNow,
                    SlackSignature("s2", "numeric", BaseNow, body), body)
      [] headers = "replayed" ->
            Request("slack", "numeric", BaseNow - Window - 2,
                    SlackSignature("s1", "numeric", BaseNow - Window - 2, body), body)
      [] headers = "malformed" ->
            Request("slack", "malformed", 0,
                    SlackSignature("s1", "malformed", 0, body), body)

\* one body of each kind, for the requests whose headers do not verify
SampleBodies ==
    CommonBodies \cup
    {b \in SlackCallbackBodies :
        /\ b.event.type = "message" /\ b.event.subtype = None
        /\ b.event.app_id = None /\ b.event.bot_id \in {None, "B1"}
        /\ b.event.channel = "C1"}

SlackRequests ==
    {SlackRequest(h, b) : h \in {"none", "signed"}, b \in SlackBodies}
    \cup {SlackRequest(h, b) : h \in {"forged", "replayed", "malformed"}, b \in SampleBodies}

EmailRequests == {Request("email", None, 0, AbsentSignature, b) : b \in EmailBodies}

ConfiguredSecrets == {"", "s1"}

\* what the credentials and the broker do to one publish unit
PipelineScripts ==
    {[k \in 1..MaxScript |-> IF k = 1 THEN o ELSE "ok"] :
        o \in {"ok", "DeadlineExceeded", "PermissionDenied", "TimeoutError"}}

PipelineEnvs ==
    [authOk : BOOLEAN, f1 : CreateFaults, f2 : CreateFaults, script : PipelineScripts]

-----------------------------------------------------------------------------
(* Mail content.  A string is a sequence of tokens: a word, one blank " " or
   one line break "\n".  The words are such that a line matches
   r"On\s.*(wrote|écrit):$" exactly when its first token is "On", its second
   is a blank and its last is "wrote:" or "écrit:". *)

ForwardedMarker == "---------- Forwarded message ---------"

\* the lines a plain-text body is made of
Lines ==
    { <<>>, <<" ">>, <<"Hello">>, <<" ", "Thanks", " ">>,
      <<">", " ", "old text">>, <<" ", ">", "older text">>,
      <<"On", " ", "Mon, Jan 1", " ", "wrote:">>,
      <<" ", "On", " ", "écrit:", " ">>,
      <<"On", " ", "Monday">>,
      <<ForwardedMarker>> }

\* "\n".join(lines)
RECURSIVE JoinLines(_)
JoinLines(lines) ==
    IF lines = <<>> THEN <<>>
    ELSE IF Len(lines) = 1 THEN lines[1]
    ELSE lines[1] \o <<"\n">> \o JoinLines(Tail(lines))

\* str.splitlines(): no last line for what follows a final line break
RECURSIVE SplitFrom(_, _, _)
SplitFrom(s, line, done) ==
    IF s = <<>> THEN (IF line = <<>> THEN done ELSE Append(done, line))
    ELSE IF Head(s) = "\n" THEN SplitFrom(Tail(s), <<>>, Append(done, line))
    ELSE SplitFrom(Tail(s), Append(line, Head(s)), done)

SplitLines(s) == SplitFrom(s, <<>>, <<>>)

\* re.match(r"On\s.*(wrote|écrit):$", line_stripped, re.IGNORECASE)
IsReplyHeader(line_stripped) ==
    /\ Len(line_stripped) >= 3
    /\ line_stripped[1] = "On"
    /\ IsSpace(line_stripped[2])
    /\ line_stripped[Len(line_stripped)] \in {"wrote:", "écrit:"}

\* the two tests of the cut-off loop on one line
IsQuoteStartNever(line) == FALSE

IsQuoteStart(line) ==
    LET line_stripped == Strip(line) IN
    IsReplyHeader(line_stripped) \/ line_stripped = <<ForwardedMarker>>

\* lines[i].strip().startswith(">")
IsQuoted(line) == Strip(line) # <<>> /\ Head(Strip(line)) = ">"

\* cut_off_index, counted from 1: the first line where quoted text begins,
\* Len(lines) + 1 when there is none
RECURSIVE CutOffFrom(_, _)
CutOffFrom(lines, i) ==
    IF i > Len(lines) THEN Len(lines) + 1
    ELSE IF IsQuoteStart(lines[i]) THEN i
    ELSE CutOffFrom(lines, i + 1)

\* last_non_quote, counted from 1: scanning from the bottom, the first line
\* that is not quoted; 0 when every line is
RECURSIVE LastNonQuoteFrom(_, _)
LastNonQuoteFrom(lines, i) ==
    IF i < 1 THEN 0
    ELSE IF ~IsQuoted(lines[i]) THEN i
    ELSE LastNonQuoteFrom(lines, i - 1)

\* What the reply extraction makes of a decoded plain-text content:
\* found is FALSE when it falls through to the snippet
ReplyOf(content) ==
    LET lines == SplitLines(content)
        cut_off_index == CutOffFrom(lines, 1)
        latest_reply == Strip(JoinLines(SubSeq(lines, 1, cut_off_index - 1)))
        last_non_quote == LastNonQuoteFrom(lines, Len(lines))
    IN  IF latest_reply # <<>> THEN [found |-> TRUE, text |-> latest_reply]
        ELSE IF last_non_quote # 0
        THEN [found |-> TRUE,
              text |-> Strip(JoinLines(SubSeq(lines, 1, last_non_quote)))]
        ELSE [found |-> FALSE, text |-> <<>>]

\* part["body"]["data"] or payload["body"]["data"]: "nobody" has no "body"
\* key, "absent" no "data" key, "undecodable" is not base64 of UTF-8
Data(kind, text) == [kind |-> kind, text |-> text]
NoData == Data("absent", <<>>)

\* a part of the payload: its mimeType, its body and the parts it holds itself
Part(mime, data) == [mimeType |-> mime, body |-> data, parts |-> <<>>]

\* a multipart part: no data of its own, the parts given inside
Multipart(mime, parts) == [mimeType |-> mime, body |-> NoData, parts |-> parts]

\* the plain-text part loop: the content of the first text/plain part that
\* has data, or that the access or the decoding raised
RECURSIVE PartsContent(_, _)
PartsContent(parts, i) ==
    IF i > Len(parts) THEN [raised |-> FALSE, content |-> <<>>]
    ELSE IF parts[i].mimeType # "text/plain" THEN PartsContent(parts, i + 1)
    ELSE IF parts[i].body.kind = "absent" THEN PartsContent(parts, i + 1)
    ELSE IF parts[i].body.kind \in {"nobody", "undecodable"}
    THEN [raised |-> TRUE, content |-> <<>>]
    ELSE [raised |-> FALSE, content |-> parts[i].body.text]

Payload(has_parts, parts, mime, data) ==
    [has_parts |-> has_parts, parts |-> parts, mimeType |-> mime, body |-> data]

Message(has_payload, payload, snippet) ==
    [has_payload |-> has_payload, payload |-> payload, snippet |-> snippet]

NoMessage == Message(FALSE, Payload(FALSE, <<>>, None, NoData), <<>>)

\* extract_email_content(message); "" is <<>>
extract_email_content(message) ==
    IF ~message.has_payload THEN <<>>
    ELSE
    LET payload == message.payload
        fromParts == IF payload.has_parts THEN PartsContent(payload.parts, 1)
                     ELSE [raised |-> FALSE, content |-> <<>>]
        direct == /\ fromParts.content = <<>>
                  /\ payload.body.kind \notin {"nobody", "absent"}
                  /\ payload.mimeType = "text/plain"
        content == IF direct THEN payload.body.text ELSE fromParts.content
        reply == ReplyOf(content)
    IN  IF fromParts.raised THEN <<>>
        ELSE IF direct /\ payload.body.kind = "undecodable" THEN <<>>
        ELSE IF content # <<>> /\ reply.found THEN reply.text
        ELSE IF message.snippet # <<>> THEN message.snippet
        ELSE content

-----------------------------------------------------------------------------
(* Mail deliveries: the Gmail notifications pushed to POST /email/push and
   the messages pulled from the email-replies subscription. *)

\* the header names that carry the tenant of a mail, in the order tried
TenantHeaderNames == <<"X-Org-Id", "X-Organization-Id", "X-Org-ID">>

\* the tenant headers of a message: the value under each name, None if absent
NoTenant == <<None, None, None>>

\* `for header_name in [...]: if header_name in headers: org_id = ...; break`
\* the value assigned, org_id when no name is present
RECURSIVE FirstTenantHeader(_, _, _)
FirstTenantHeader(tenant, i, org_id) ==
    IF i > Len(TenantHeaderNames) THEN org_id
    ELSE IF tenant[i] # None THEN tenant[i]
    ELSE FirstTenantHeader(tenant, i + 1, org_id)

\* the loop over the messages of the thread, from the i-th on
RECURSIVE ThreadOrgIdLastWins(_, _, _, _)
ThreadOrgIdLastWins(thread_messages, message_id, i, org_id) ==
    IF i > Len(thread_messages) THEN org_id
    ELSE IF thread_messages[i].id = message_id
    THEN ThreadOrgIdLastWins(thread_messages, message_id, i + 1, org_id)
    ELSE ThreadOrgIdLastWins(thread_messages, message_id, i + 1,
                             FirstTenantHeader(thread_messages[i].tenant, 1, org_id))

RECURSIVE ThreadOrgId(_, _, _, _)
ThreadOrgId(thread_messages, message_id, i, org_id) ==
    IF i > Len(thread_messages) THEN org_id
    ELSE IF thread_messages[i].id = message_id
    THEN ThreadOrgId(thread_messages, message_id, i + 1, org_id)
    ELSE LET found == FirstTenantHeader(thread_messages[i].tenant, 1, org_id)
         IN  IF Truthy(found) THEN found
             ELSE ThreadOrgId(thread_messages, message_id, i + 1, found)

\* What the Gmail API holds for the mailbox: whether it can be reached
\* (access), the id of its most recent message, the reply header the message
\* carries, its tenant headers, its threadId, what it is made of, and its
\* thread (whether threads().get raises, the messages it returns).
Mailbox(access, reply_header, tenant, thread_id, message, thread_raises, thread_messages) ==
    [access |-> access, message_id |-> "m1", reply_header |-> reply_header,
     tenant |-> tenant, thread_id |-> thread_id, message |-> message,
     thread_raises |-> thread_raises, thread_messages |-> thread_messages]

NoMailbox == Mailbox("no_token", None, NoTenant, None, NoMessage, FALSE, <<>>)

MailSender == "c@z"
MailRecipient == "me@x"

NoContent == [found |-> FALSE, from_email |-> "", to_email |-> "", body |-> <<>>,
              org_id |-> None]

\* threads().get is called for the thread of the message:
\* `if not org_id and is_reply:` ... `if thread_id:`
ThreadFetched(mailbox) ==
    /\ mailbox.access = "ok"
    /\ ~Truthy(FirstTenantHeader(mailbox.tenant, 1, None))
    /\ mailbox.reply_header # None
    /\ Truthy(mailbox.thread_id)

\* fetch_recent_email_content(email_address)
fetch_recent_email_content(mailbox) ==
    LET is_reply == mailbox.reply_header # None
        own == FirstTenantHeader(mailbox.tenant, 1, None)
        org_id == IF ThreadFetched(mailbox) /\ ~mailbox.thread_raises
                  THEN ThreadOrgId(mailbox.thread_messages, mailbox.message_id, 1, own)
                  ELSE own
        content == extract_email_content(mailbox.message)
    IN  IF mailbox.access # "ok" THEN NoContent
        ELSE IF ~is_reply THEN NoContent
        ELSE IF content = <<>> THEN NoContent
        ELSE [found |-> TRUE, from_email |-> MailSender, to_email |-> MailRecipient,
              body |-> content, org_id |-> org_id]

\* a Pub/Sub push or pulled message by what the handlers read of it: the
\* request body (json), message.data (data: "empty", "invalid", "nondict" or
\* "dict"), the keys of the decoded data
Delivery(path, json, data, email_address, history_id, from_email, body, mailbox) ==
    [path |-> path, json |-> json, data |-> data, emailAddress |-> email_address,
     historyId |-> history_id, from |-> from_email, body |-> body,
     mailbox |-> mailbox]

NoDelivery == Delivery(None, "invalid", "empty", None, None, "", <<>>, NoMailbox)

PlaceholderBody(email_address) ==
    <<"Email notification received for", " ", email_address, " ",
      "Gmail API content fetch failed, using placeholder.">>

MailEventWrapper(source, from_email, to_email, body, org_id) ==
    [EmailEventWrapper([event |-> [type |-> "email_reply", from_email |-> from_email,
                                   to_email |-> to_email, body |-> Some(body),
                                   org_id |-> org_id]])
        EXCEPT !.source = source, !.project_id = "infis-ai"]

\* the event made when no content was fetched
Placeholder(delivery) ==
    MailEventWrapper("email", delivery.emailAddress, "",
                     PlaceholderBody(delivery.emailAddress), None)

\* process_gmail_notification reaches `await fetch_recent_email_content(...)`:
\* gmail_data.get raises on data that is not an object (and None is
\* returned), empty data is decoded as {}, and a notification without
\* emailAddress or historyId is left at once
GmailFetchedUnchecked(delivery) == delivery.data \in {"dict", "empty"}

GmailFetched(delivery) ==
    /\ delivery.data = "dict"
    /\ Truthy(delivery.emailAddress) /\ Truthy(delivery.historyId)

\* process_gmail_notification(gmail_data, _attributes): the wrapper, or
\* NoWrapper for None
process_gmail_notification(delivery) ==
    LET email_content == fetch_recent_email_content(delivery.mailbox) IN
    IF ~GmailFetched(delivery) THEN NoWrapper
    ELSE IF ~email_content.found THEN Placeholder(delivery)
    ELSE MailEventWrapper("email", email_content.from_email, email_content.to_email,
                          email_content.body, email_content.org_id)

\* message_data.get(...) raises AttributeError on JSON that is not an object
ConversionRaises(delivery) == delivery.data = "nondict"

\* EmailSubscriptionService._convert_to_email_event; what is raised inside
\* it is caught there and None returned
_convert_to_email_event(delivery) ==
    IF ConversionRaises(delivery) THEN NoWrapper
    ELSE IF ~Truthy(delivery.from) \/ delivery.body = <<>> THEN NoWrapper
    ELSE MailEventWrapper("email_subscription", delivery.from, "", delivery.body, None)

\* the answer to a delivery: the response of POST /email/push, or how the
\* pulled message was settled ("ack", "nack")
MailOutcome(status_code, status, processed, message_id, error_code, settled, wrapper) ==
    [status_code |-> status_code, status |-> status, processed |-> processed,
     message_id |-> message_id, error_code |-> error_code, settled |-> settled,
     wrapper |-> wrapper]

NoOutcome == MailOutcome(0, None, FALSE, None, None, None, NoWrapper)

\* email_push_subscription(request), o being the outcome of the publish it awaits
email_push_subscription(delivery, o) ==
    LET processed_event == process_gmail_notification(delivery) IN
    IF delivery.json # "dict"
    THEN MailOutcome(500, None, FALSE, None, "PUSH_HANDLER_ERROR", None, NoWrapper)
    ELSE IF delivery.data = "invalid"
    THEN MailOutcome(400, None, FALSE, None, "INVALID_PUBSUB_DATA", None, NoWrapper)
    ELSE IF processed_event = NoWrapper
    THEN MailOutcome(200, "ok", FALSE, None, None, None, NoWrapper)
    ELSE IF o.raised # None
    THEN MailOutcome(500, None, FALSE, None, "PUSH_HANDLER_ERROR", None, processed_event)
    ELSE MailOutcome(200, "ok", TRUE, o.message_id, None, None, processed_event)

\* EmailSubscriptionService.process_email_message(message)
process_email_message_acks_failure(delivery, o) ==
    LET email_event == _convert_to_email_event(delivery) IN
    IF delivery.data \in {"empty", "invalid"}
    THEN MailOutcome(0, None, FALSE, None, None, "nack", NoWrapper)
    ELSE IF email_event = NoWrapper
    THEN MailOutcome(0, None, FALSE, None, None, "ack", NoWrapper)
    ELSE MailOutcome(0, None, o.raised = None, o.message_id, None, "ack", email_event)

process_email_message(delivery, o) ==
    LET email_event == _convert_to_email_event(delivery) IN
    IF delivery.data \in {"empty", "invalid"}
    THEN MailOutcome(0, None, FALSE, None, None, "nack", NoWrapper)
    ELSE IF email_event = NoWrapper
    THEN MailOutcome(0, None, FALSE, None, None, "ack", NoWrapper)
    ELSE IF o.raised # None
    THEN MailOutcome(0, None, FALSE, None, None, "nack", email_event)
    ELSE MailOutcome(0, None, TRUE, o.message_id, None, "ack", email_event)

-----------------------------------------------------------------------------
(* The dispatcher: handlers and detached units of one process *)

\* verify_slack_signature has not been called
NoVerify ==
    [tsk |-> None, tsv |-> 0, sig |-> AbsentSignature, body |-> InvalidJsonBody,
     secret |-> None, now |-> BaseNow, raised |-> None]

\* extract_email_content has not been called, no notification delivered
\* no caller of the EmailSubscriptionService
ListenerIdle ==
    /\ lsPc = <<>> /\ lsRes = <<>> /\ is_running = <<>>
    /\ subscription = FALSE

MailIdle ==
    /\ xIn = NoMessage /\ xOut = <<>>
    /\ mailIn = NoDelivery /\ mailOut = NoOutcome

Idle ==
    /\ vIn = NoVerify /\ vOut = FALSE
    /\ MailIdle /\ ListenerIdle
    /\ rcPc = <<>> /\ rcArg = <<>> /\ rcRes = <<>> /\ created = <<>>

NoInflight ==
    [id |-> 0, req |-> NoRequest, now |-> BaseNow,
     response |-> OkResponse(None, None)]

Init ==
    /\ slack_signing_secret \in ConfiguredSecrets
    /\ publisher = "uninit"
    /\ nextId = 1
    /\ inflight = NoInflight
    /\ resp = <<>>
    /\ queue = <<>>
    /\ unit = <<>>
    /\ topics = {}
    /\ trace = <<>>
    /\ Idle

\* The handler of request nextId ran at time now and yielded h.  A unit
\* dispatched inline has run by the time the handler returns.
Deliver(req, now, h) ==
    /\ inflight' = [id |-> nextId, req |-> req, now |-> now, response |-> h.response]
    /\ nextId' = nextId + 1
    /\ UNCHANGED <<slack_signing_secret, resp, verifyVars, mailVars, listenerVars, raceVars>>
    /\ IF h.dispatch = "background"
       THEN /\ queue' = Append(queue, [id |-> nextId, wrapper |-> h.wrapper])
            /\ unit' = Append(unit, QueuedUnit)
            /\ trace' = Append(trace, ResponseReturned(nextId))
            /\ UNCHANGED <<topics, publisher>>
       ELSE IF h.dispatch = "inline"
       THEN \E env \in PipelineEnvs :
              LET o == PublishEvent(h.wrapper, nextId, topics, publisher, env) IN
              /\ unit' = Append(unit, DoneUnit(o))
              /\ trace' = Append(trace \o o.calls, ResponseReturned(nextId))
              /\ topics' = o.held
              /\ publisher' = o.publisher
              /\ UNCHANGED queue
       ELSE /\ unit' = Append(unit, NoUnit)
            /\ trace' = Append(trace, ResponseReturned(nextId))
            /\ UNCHANGED <<queue, topics, publisher>>

\* POST /slack/webhook, for the requests and the clock readings given
SlackWebhookOn(requests, clock, limit) ==
    /\ nextId <= limit
    /\ inflight = NoInflight
    /\ \E req \in requests, now \in clock :
          Deliver(req, now, slack_webhook(req, slack_signing_secret, now))

\* POST /email/webhook
EmailWebhookOn(requests, clock, limit) ==
    /\ nextId <= limit
    /\ inflight = NoInflight
    /\ \E req \in requests, now \in clock :
          Deliver(req, now, email_webhook(req))

\* The response of the request in flight is sent; the request is gone
SendResponse ==
    /\ inflight # NoInflight
    /\ resp' = Append(resp, inflight.response)
    /\ inflight' = NoInflight
    /\ UNCHANGED <<slack_signing_secret, publisher, nextId, queue, unit, topics,
                   trace, verifyVars, mailVars, listenerVars, raceVars>>

RemoveAt(q, i) == SubSeq(q, 1, i - 1) \o SubSeq(q, i + 1, Len(q))

\* Starlette runs a scheduled publish_*_event_background once the response
\* of its request is sent
RunBackground ==
    \E i \in 1..Len(queue), env \in PipelineEnvs :
        LET task == queue[i]
            o == PublishEvent(task.wrapper, task.id, topics, publisher, env)
        IN  /\ task.id # inflight.id
            /\ queue' = RemoveAt(queue, i)
            /\ unit' = [unit EXCEPT ![task.id] = DoneUnit(o)]
            /\ trace' = trace \o o.calls
            /\ topics' = o.held
            /\ publisher' = o.publisher
            /\ UNCHANGED <<slack_signing_secret, nextId, inflight, resp,
                           verifyVars, mailVars, listenerVars, raceVars>>

(* Spec: a process that takes MaxRequests requests of the core shapes *)

CoreStrings == {x \in Strings : Len(x) <= 1}
CoreTexts == {NoText} \cup {Some(x) : x \in CoreStrings}

CoreSlackBodies ==
    CommonBodies \cup
    {b \in SlackCallbackBodies :
        /\ b.event.text \in CoreTexts
        /\ b.event.type # "app_mention" /\ b.event.bot_id # ""
        /\ b.event.subtype = None
        /\ b.wrapper_ok \/ b \in SampleBodies}

CoreEmailBodies ==
    CommonBodies \cup
    {b \in EmailCallbackBodies :
        /\ b.event.body \in CoreTexts
        /\ b.event.org_id # ""
        /\ b.wrapper_ok \/ (b.event.from_email = None /\ b.event.org_id = None)}

CoreSlackRequests ==
    {r \in SlackRequests : r.body \in CoreSlackBodies}

CoreEmailRequests ==
    {r \in EmailRequests : r.body \in CoreEmailBodies}

SlackWebhook == SlackWebhookOn(CoreSlackRequests, {BaseNow}, MaxRequests)
EmailWebhook == EmailWebhookOn(CoreEmailRequests, {BaseNow}, MaxRequests)

Next == SlackWebhook \/ EmailWebhook \/ SendResponse \/ RunBackground

Spec == Init /\ [][Next]_vars

\* Starlette runs the background tasks of a response it has sent, and sends
\* the response a handler returned
FairSpec == Spec /\ WF_vars(SendResponse) /\ WF_vars(RunBackground)

(* SpecFirst: the first request of a process, of any shape *)

FirstSlackWebhook == SlackWebhookOn(SlackRequests, NowValues, 1)
FirstEmailWebhook == EmailWebhookOn(EmailRequests, NowValues, 1)

NextFirst == FirstSlackWebhook \/ FirstEmailWebhook \/ SendResponse \/ RunBackground

SpecFirst == Init /\ [][NextFirst]_vars

-----------------------------------------------------------------------------
(* SpecService: NumCallers concurrent callers of the two Pub/Sub wrappers.
   Each broker call is one step; the broker alone arbitrates between them. *)

Callers == 1..NumCallers

TopicIds == {SLACK_REPLY_EVENT_TOPIC, EMAIL_REPLY_EVENT_TOPIC}

Implementations == {"PubSubService", "GCPPubSubClient"}

Operations == {"create_topic_if_not_exists", "publish_message"}

ServiceScripts ==
    {[k \in 1..MaxScript |-> IF k = 1 THEN o ELSE "ok"] : o \in PublishOutcomes}

NoCall == [impl |-> None, op |-> None, topic_id |-> None]

\* the locals of a call: the broker's answer to its create, whether another
\* caller was between call and create of the same topic at that moment, what
\* create_topic_if_not_exists returned or raised, and what the call itself
\* returned or raised
NoResult ==
    [answer |-> None, raced |-> FALSE, ensure |-> Raised(None), raised |-> None,
     message_id |-> None, attempts |-> 0, script |-> <<>>]

InitService ==
    /\ slack_signing_secret = ""
    /\ publisher = "ready"
    /\ nextId = 1
    /\ inflight = NoInflight
    /\ resp = <<>> /\ queue = <<>> /\ unit = <<>> /\ trace = <<>>
    /\ topics = {}
    /\ vIn = NoVerify /\ vOut = FALSE
    /\ MailIdle /\ ListenerIdle
    /\ rcPc = [c \in Callers |-> "idle"]
    /\ rcArg = [c \in Callers |-> NoCall]
    /\ rcRes = [c \in Callers |-> NoResult]
    /\ created = [t \in TopicIds |-> 0]

\* a caller enters create_topic_if_not_exists or publish_message
Call(c) ==
    /\ rcPc[c] = "idle"
    /\ \E impl \in Implementations, op \in Operations, topic_id \in TopicIds :
          rcArg' = [rcArg EXCEPT ![c] = [impl |-> impl, op |-> op, topic_id |-> topic_id]]
    /\ rcPc' = [rcPc EXCEPT ![c] = "create"]
    /\ UNCHANGED <<pipelineVars, topics, verifyVars, mailVars, listenerVars, rcRes, created>>

\* what a call raises when its create_topic_if_not_exists raised:
\* PubSubService.publish_message wraps it, everything else lets it through
EnsureRaises(arg, exception) ==
    IF arg.op = "publish_message" /\ arg.impl = "PubSubService"
    THEN "MessagePublishException"
    ELSE exception

\* the locals and the position of a call once create_topic_if_not_exists
\* has returned or raised r
AfterEnsure(c, res, r) ==
    /\ rcRes' = [rcRes EXCEPT ![c] =
                    [res EXCEPT !.ensure = r,
                                !.raised = IF r.raised = None THEN None
                                           ELSE EnsureRaises(rcArg[c], r.raised)]]
    /\ rcPc' = [rcPc EXCEPT ![c] =
                    IF r.raised = None /\ rcArg[c].op = "publish_message"
                    THEN "publish" ELSE "done"]

\* publisher.create_topic(...) of a caller reaches the broker
BrokerCreate(c) ==
    /\ rcPc[c] = "create"
    /\ \E fault \in CreateFaults :
          LET topic_id == rcArg[c].topic_id
              path == TopicPath(topic_id)
              answer == BrokerCreateTopic(topics, path, fault)
              res == [rcRes[c] EXCEPT
                        !.answer = answer,
                        !.raced = \E d \in Callers \ {c} :
                                     rcPc[d] = "create" /\ rcArg[d].topic_id = topic_id]
          IN  /\ topics' = IF answer = "Created" THEN topics \cup {path} ELSE topics
              /\ created' = IF answer = "Created"
                            THEN [created EXCEPT ![topic_id] = @ + 1] ELSE created
              /\ IF rcArg[c].impl = "PubSubService"
                 THEN AfterEnsure(c, res, CreateTopicReturn(topic_id, answer))
                 ELSE IF answer = "AlreadyExists"
                 THEN /\ rcRes' = [rcRes EXCEPT ![c] = res]
                      /\ rcPc' = [rcPc EXCEPT ![c] = "get_topic"]
                 ELSE AfterEnsure(c, res, ClientCreateTopicReturn(topic_id, answer))
    /\ UNCHANGED <<slack_signing_secret, publisher, nextId, inflight, resp, queue,
                   unit, trace, verifyVars, mailVars, listenerVars, rcArg>>

\* GCPPubSubClient: publisher.get_topic(...) after AlreadyExists
GetTopic(c) ==
    /\ rcPc[c] = "get_topic"
    /\ \E get_topic_ok \in BOOLEAN :
          AfterEnsure(c, rcRes[c], ClientExistingReturn(rcArg[c].topic_id, get_topic_ok))
    /\ UNCHANGED <<pipelineVars, topics, verifyVars, mailVars, listenerVars, rcArg, created>>

\* publisher.publish(...) and future.result(timeout), to the return or the
\* raise of publish_message
Publish(c) ==
    /\ rcPc[c] = "publish"
    /\ \E script \in ServiceScripts :
          LET pa == PublishAttempts(script, 1) IN
          rcRes' = [rcRes EXCEPT ![c] =
                      [@ EXCEPT !.script = script,
                                !.attempts = pa.attempts,
                                !.message_id = IF pa.error = None THEN "mid" ELSE None,
                                !.raised =
                                    IF pa.error = None THEN None
                                    ELSE IF rcArg[c].impl = "PubSubService"
                                    THEN "MessagePublishException"
                                    ELSE pa.error]]
    /\ rcPc' = [rcPc EXCEPT ![c] = "done"]
    /\ UNCHANGED <<pipelineVars, topics, verifyVars, mailVars, listenerVars, rcArg, created>>

NextService ==
    \E c \in Callers : Call(c) \/ BrokerCreate(c) \/ GetTopic(c) \/ Publish(c)

SpecService == InitService /\ [][NextService]_vars

-----------------------------------------------------------------------------
(* SpecVerify: verify_slack_signature called on its own, over what the two
   headers, the body, the secret and the clock can be *)

\* the timestamp header: absent, empty, not a number, nan, or a number of
\* ticks within two ticks of now, of now - 300 s or of now + 300 s
TimestampHeaders(now) ==
    {<<k, 0>> : k \in {None, "", "malformed", "nan"}}
    \cup {<<"numeric", now + side * (d + e)>> :
            side \in {-1, 1}, d \in {0, Window}, e \in {-2, -1, 0, 1, 2}}

VerifyBodies == {UndecodableBody, InvalidJsonBody, NonDictBody}

VerifySecrets == {"s1", "s2"}

\* the signature header: absent, empty, the MAC of this request under the
\* configured secret, or a MAC under another secret, of another timestamp
\* or of another body
SignatureHeaders(secret, tsk, tsv, body) ==
    {AbsentSignature, EmptySignature, NonAsciiSignature,
     SlackSignature(secret, tsk, tsv, body)}
    \cup {SlackSignature(k, tsk, tsv, body) : k \in VerifySecrets}
    \cup {SlackSignature(secret, tsk, tsv + 1, body)}
    \cup {SlackSignature(secret, tsk, tsv, b) : b \in VerifyBodies}

InitVerify ==
    /\ slack_signing_secret \in VerifySecrets
    /\ publisher = "uninit"
    /\ nextId = 1
    /\ inflight = NoInflight
    /\ resp = <<>> /\ queue = <<>> /\ unit = <<>> /\ trace = <<>>
    /\ topics = {}
    /\ Idle

Verify ==
    \E now \in NowValues, body \in VerifyBodies :
      \E ts \in TimestampHeaders(now) :
        \E sig \in SignatureHeaders(slack_signing_secret, ts[1], ts[2], body) :
          /\ vIn' = [tsk |-> ts[1], tsv |-> ts[2], sig |-> sig, body |-> body,
                     secret |-> slack_signing_secret, now |-> now,
                     raised |-> VerifyCaught(
                                   SignatureChecked(ts[1], ts[2], sig, body,
                                                    slack_signing_secret, now)).raised]
          /\ vOut' = verify_slack_signature(ts[1], ts[2], sig, body,
                                            slack_signing_secret, now)
          /\ UNCHANGED <<pipelineVars, topics, raceVars, mailVars, listenerVars>>

NextVerify == Verify

SpecVerify == InitVerify /\ [][NextVerify]_vars

-----------------------------------------------------------------------------
(* SpecExtract: extract_email_content called on its own, over mails of up to
   MaxLines lines and the shapes a Gmail payload takes *)

Contents ==
    {<<>>} \cup {JoinLines(ls) : ls \in UNION {[1..n -> Lines] : n \in 1..MaxLines}}

SampleContents ==
    {<<>>, <<"\n">>, <<"Hello">>, <<"Hello", "\n">>,
     JoinLines(<< <<"Hello">>, <<">", " ", "old text">> >>),
     JoinLines(<< <<ForwardedMarker>>, <<">", " ", "old text">> >>)}

Snippets == {<<>>, <<"snippet">>, <<" ">>}

\* one text/plain part holding the content
PlainMessage(content, snippet) ==
    Message(TRUE,
            Payload(TRUE, <<Part("text/plain", Data("text", content))>>,
                    "multipart/alternative", NoData),
            snippet)

\* no parts, the content in the body of the payload
DirectMessage(mime, data, snippet) ==
    Message(TRUE, Payload(FALSE, <<>>, mime, data), snippet)

PartShapes ==
    { <<Part("text/html", Data("text", <<"Hello">>)), Part("text/plain", Data("text", c))>>
        : c \in SampleContents }
    \cup { <<Part("text/plain", d), Part("text/plain", Data("text", <<"Hello">>))>>
        : d \in {NoData, Data("nobody", <<>>), Data("undecodable", <<>>)} }
    \cup { <<>>, <<Part("text/html", Data("text", <<"Hello">>))>> }
    \cup { <<Multipart("multipart/alternative",
                       <<Part("text/plain", Data("text", c)),
                         Part("text/html", Data("text", <<"Hello">>))>>),
             Part("application/pdf", NoData)>> : c \in SampleContents }

ExtractMessages ==
    {PlainMessage(c, <<>>) : c \in Contents}
    \cup {PlainMessage(c, sn) : c \in SampleContents, sn \in Snippets}
    \cup {DirectMessage(m, Data("text", c), sn) :
            m \in {"text/plain", "text/html"}, c \in SampleContents, sn \in Snippets}
    \cup {DirectMessage("text/plain", d, sn) :
            d \in {NoData, Data("nobody", <<>>), Data("undecodable", <<>>)},
            sn \in Snippets}
    \cup {Message(TRUE, Payload(TRUE, ps, "text/plain", d), sn) :
            ps \in PartShapes, d \in {NoData, Data("text", <<"Thanks">>)},
            sn \in Snippets}
    \cup {Message(FALSE, Payload(FALSE, <<>>, None, NoData), <<"snippet">>)}

InitExtract ==
    /\ slack_signing_secret = ""
    /\ publisher = "uninit"
    /\ nextId = 1
    /\ inflight = NoInflight
    /\ resp = <<>> /\ queue = <<>> /\ unit = <<>> /\ trace = <<>>
    /\ topics = {}
    /\ Idle

\* one call of extract_email_content
Extract ==
    \E message \in ExtractMessages :
        /\ xIn = NoMessage
        /\ xIn' = message
        /\ xOut' = extract_email_content(message)
        /\ UNCHANGED <<pipelineVars, topics, verifyVars, raceVars, mailIn, mailOut, listenerVars>>

NextExtract == Extract

SpecExtract == InitExtract /\ [][NextExtract]_vars

-----------------------------------------------------------------------------
(* SpecMail: the first delivery a process takes, pushed or pulled *)

MaxThread == 3       \* messages in the thread of a mail

TenantValues ==
    {NoTenant, <<"acme-42", None, None>>, <<"", None, None>>,
     <<"", "other-7", None>>, <<None, None, "other-7">>}

ThreadMessages ==
    {[id |-> "m1", tenant |-> NoTenant]}
    \cup {[id |-> "m0", tenant |-> t] : t \in TenantValues}

Threads == UNION {[1..n -> ThreadMessages] : n \in 0..MaxThread}

Hello == PlainMessage(<<"Hello">>, <<>>)

\* replies without a tenant value of their own, in threads of every shape
ThreadedMailboxes ==
    {Mailbox("ok", h, t, "t1", Hello, FALSE, th) :
        h \in {"In-Reply-To", "References"},
        t \in {NoTenant, <<"", None, None>>}, th \in Threads}

\* mailboxes of every other kind
OtherMailboxes ==
    {Mailbox(a, "In-Reply-To", NoTenant, "t1", Hello, FALSE, <<>>) :
        a \in {"no_token", "bad_token", "refresh_fails", "api_error", "no_messages"}}
    \cup {Mailbox("ok", h, NoTenant, "t1", m, FALSE, <<>>) :
            h \in {None, "In-Reply-To"}, m \in ExtractMessages}
    \cup {Mailbox("ok", h, t, tid, Hello, r,
                  <<[id |-> "m1", tenant |-> t], [id |-> "m0", tenant |-> <<"acme-42", None, None>>]>>) :
            h \in {None, "In-Reply-To", "References"}, t \in TenantValues,
            tid \in {None, "t1"}, r \in BOOLEAN}

PushDeliveries ==
    {Delivery("push", "dict", "dict", "u@d", "12345", "", <<>>, mb) :
        mb \in ThreadedMailboxes \cup OtherMailboxes}
    \cup {Delivery("push", j, d, a, h, "", <<>>, mb) :
            j \in {"invalid", "list", "dict"},
            d \in {"empty", "invalid", "nondict", "dict"},
            a \in {None, "u@d"}, h \in {None, "12345"},
            mb \in {NoMailbox, Mailbox("ok", "In-Reply-To", NoTenant, "t1", Hello, FALSE, <<>>)}}

PullDeliveries ==
    {Delivery("pull", "dict", d, None, None, f, b, NoMailbox) :
        d \in {"invalid", "dict"}, f \in {"", MailSender},
        b \in {<<>>} \cup SampleContents \cup Snippets}
    \cup {Delivery("pull", "dict", d, None, None, "", <<>>, NoMailbox) :
            d \in {"empty", "nondict"}}

\* what the credentials and the broker do to the publish of a delivery
MailEnvs ==
    {env \in PipelineEnvs :
        env.f2 = "none" /\ env.f1 \in {"none", "PermissionDenied"}}

\* the answer of the handler of the delivery, o being the outcome of its publish
Answer(delivery, o) ==
    IF delivery.path = "push" THEN email_push_subscription(delivery, o)
    ELSE process_email_message(delivery, o)

\* the calls of the mail provider the handler of the delivery makes
GmailCalls(delivery) ==
    IF /\ delivery.path = "push" /\ delivery.json = "dict"
       /\ delivery.data # "invalid" /\ GmailFetched(delivery)
    THEN <<BrokerCall("fetch_recent_email_content", nextId, None,
                      delivery.mailbox.access, NoWrapper, <<>>)>>
    ELSE <<>>

\* the delivery is handled; the publish, if any, has run when the handler ends
Settle(delivery, wrapper) ==
    /\ mailIn' = delivery
    /\ UNCHANGED <<slack_signing_secret, nextId, inflight, resp, queue, unit,
                   verifyVars, raceVars, xIn, xOut, listenerVars>>
    /\ IF wrapper = NoWrapper
       THEN /\ mailOut' = Answer(delivery, PublishOutcome(topics, publisher, <<>>, None,
                                                          None, None, 0, <<>>))
            /\ trace' = trace \o GmailCalls(delivery)
            /\ UNCHANGED <<topics, publisher>>
       ELSE \E env \in MailEnvs :
              LET o == PublishEvent(wrapper, nextId, topics, publisher, env) IN
              /\ mailOut' = Answer(delivery, o)
              /\ trace' = trace \o GmailCalls(delivery) \o o.calls
              /\ topics' = o.held
              /\ publisher' = o.publisher

\* POST /email/push
EmailPush ==
    \E delivery \in PushDeliveries :
        LET published == delivery.json = "dict" /\ delivery.data # "invalid"
            wrapper == IF published THEN process_gmail_notification(delivery)
                       ELSE NoWrapper
        IN  /\ mailIn = NoDelivery
            /\ Settle(delivery, wrapper)

\* the subscriber callback of the email-replies subscription
PullMessage ==
    \E delivery \in PullDeliveries :
        LET wrapper == IF delivery.data \in {"empty", "invalid"} THEN NoWrapper
                       ELSE _convert_to_email_event(delivery)
        IN  /\ mailIn = NoDelivery
            /\ Settle(delivery, wrapper)

NextMail == EmailPush \/ PullMessage

SpecMail == InitExtract /\ [][NextMail]_vars

-----------------------------------------------------------------------------
(* Properties of the dispatcher *)

Ids == 1..MaxRequests

\* the response produced for request id
ResponseOf(id) == IF inflight.id = id THEN inflight.response ELSE resp[id]

IsAccepted(response) ==
    response.status_code = 200 /\ response.message \in {QueuedSlack, QueuedEmail}

IsBrokerCall(entry) == entry.op \in {"create_topic", "publish"}

CallsFor(id) == {i \in 1..Len(trace) : IsBrokerCall(trace[i]) /\ trace[i].req = id}
PublishesFor(id) == {i \in CallsFor(id) : trace[i].op = "publish"}

QueuedFor(id) == {i \in 1..Len(queue) : queue[i].id = id}

\* the request in flight is a Slack event_callback whose JSON the handler can read
SlackCallbackInFlight ==
    /\ inflight # NoInflight
    /\ inflight.req.endpoint = "slack"
    /\ inflight.req.body.decodable /\ inflight.req.body.json = "dict"
    /\ inflight.req.body.type = "event_callback"

\* verification is not configured, or the request in flight passes it
InFlightVerified ==
    \/ ~Truthy(slack_signing_secret)
    \/ verify_slack_signature(inflight.req.tsk, inflight.req.tsv, inflight.req.sig,
                              inflight.req.body, slack_signing_secret, inflight.now)

\* the event is bot-originated or has no text to speak of
BotOrEmpty(event) ==
    Truthy(event.bot_id) \/ Truthy(event.app_id) \/ TextIsEmpty(event.text)

NothingPublishedFor(id) ==
    unit[id].state = "none" /\ QueuedFor(id) = {} /\ CallsFor(id) = {}

\* C1 as stated: every Slack event_callback request whose event carries a
\* bot_id or app_id, or whose text is absent, empty or whitespace-only, is
\* answered 200 "ok", schedules no publish task and causes no broker call.
C1_AsStated ==
    (SlackCallbackInFlight /\ BotOrEmpty(inflight.req.body.event)) =>
        /\ inflight.response.status_code = 200
        /\ inflight.response.status = "ok"
        /\ NothingPublishedFor(inflight.id)

\* C1 amended: such a request never schedules a publish task and never
\* causes a broker call (no queued task and no broker call is ever for a
\* bot-originated or empty-text Slack event); it is answered 200 "ok" when it
\* passes signature verification (or none is configured) and validates as a
\* SlackEventWrapper.
C1_SkippedNeverPublished ==
    /\ (SlackCallbackInFlight /\ BotOrEmpty(inflight.req.body.event)) =>
          /\ NothingPublishedFor(inflight.id)
          /\ (InFlightVerified /\ inflight.req.body.wrapper_ok) =>
                /\ inflight.response.status_code = 200
                /\ inflight.response.status = "ok"
    /\ \A i \in 1..Len(queue) :
          queue[i].wrapper.source = "slack" => ~BotOrEmpty(queue[i].wrapper.event)
    /\ \A i \in 1..Len(trace) :
          (IsBrokerCall(trace[i]) /\ trace[i].op = "publish"
              /\ trace[i].wrapper.source = "slack")
            => ~BotOrEmpty(trace[i].wrapper.event)

C1_Witness ==
    /\ SlackCallbackInFlight
    /\ Truthy(slack_signing_secret) /\ InFlightVerified
    /\ inflight.req.body.wrapper_ok
    /\ inflight.req.body.event.bot_id = "B1"
    /\ ~TextIsEmpty(inflight.req.body.event.text)
    /\ inflight.response = OkResponse("Bot event skipped", None)

\* C2: a publish unit is scheduled for a request exactly when the request
\* ends Accepted (200, "... queued for processing"), and every broker call is
\* made on behalf of an Accepted request.
C2_ScheduledIffAccepted ==
    /\ \A id \in 1..Len(unit) :
          (unit[id].state # "none") <=> IsAccepted(ResponseOf(id))
    /\ \A i \in 1..Len(queue) : IsAccepted(ResponseOf(queue[i].id))
    /\ \A i \in 1..Len(trace) :
          IsBrokerCall(trace[i]) => IsAccepted(ResponseOf(trace[i].req))

C2_Witness ==
    \E a, b \in 1..Len(resp) :
        /\ IsAccepted(resp[a]) /\ unit[a].state = "done" /\ PublishesFor(a) # {}
        /\ resp[b].status_code = 500 /\ unit[b].state = "none" /\ CallsFor(b) = {}

\* the request in flight is a verified, well-formed Slack message event
\* with text, not from a bot or an app
WellFormedMessageInFlight ==
    /\ SlackCallbackInFlight /\ InFlightVerified
    /\ inflight.req.body.wrapper_ok
    /\ inflight.req.body.event.type \in {"message", "app_mention"}
    /\ ~BotOrEmpty(inflight.req.body.event)

AcceptedSlack(id) ==
    id <= Len(unit) /\ ResponseOf(id) = OkResponse(QueuedSlack, None)

UnitDone(id) == id <= Len(unit) /\ unit[id].state = "done"

\* the publish calls carry the channel and the user of the event they publish
PublishCarriesChannelAndUser ==
    \A i \in 1..Len(trace) :
        (trace[i].op = "publish" /\ trace[i].wrapper.source = "slack") =>
            /\ trace[i].topic = SLACK_REPLY_EVENT_TOPIC
            /\ trace[i].attributes.channel_id = OrEmpty(trace[i].wrapper.event.channel)
            /\ trace[i].attributes.user_id = OrEmpty(trace[i].wrapper.event.user)

C3_Accepts ==
    WellFormedMessageInFlight =>
        /\ inflight.response.status_code = 200
        /\ inflight.response.status = "ok"
        /\ \E i \in QueuedFor(inflight.id) :
              queue[i].wrapper.event = SlackEvent(inflight.req.body.event)

C3_OnePublish ==
    \A id \in Ids :
        AcceptedSlack(id) =>
            /\ Cardinality(PublishesFor(id)) <= 1
            /\ (unit[id].state = "done" /\ unit[id].accepted) =>
                  Cardinality(PublishesFor(id)) = 1

\* C3: a well-formed Slack message event with text is answered 200 "ok",
\* its unit eventually runs, and when the broker accepts every call of the
\* unit exactly one publish call is made for the request, with channel_id
\* and user_id the channel and the user of the event.
C3_AcceptedThenPublishedOnce ==
    /\ [](C3_Accepts /\ C3_OnePublish /\ PublishCarriesChannelAndUser)
    /\ \A id \in Ids : AcceptedSlack(id) ~> UnitDone(id)

C3_Witness ==
    \E id \in 1..Len(resp) :
        /\ resp[id] = OkResponse(QueuedSlack, None)
        /\ unit[id].state = "done" /\ unit[id].accepted
        /\ \E i \in PublishesFor(id) :
              /\ trace[i].attributes.channel_id = "C1"
              /\ trace[i].attributes.user_id = "U1"
              /\ trace[i].outcome = "ok"

\* C4: every broker call made for a request comes after the handler of
\* that request returned its response.
C4_ResponseBeforeBroker ==
    \A i \in 1..Len(trace) :
        IsBrokerCall(trace[i]) =>
            \E j \in 1..(i - 1) : trace[j] = ResponseReturned(trace[i].req)

C4_Witness ==
    \E i, j \in 1..Len(trace) :
        /\ j < i
        /\ trace[j] = ResponseReturned(trace[i].req)
        /\ trace[i].op = "create_topic"
        /\ \A k \in 1..(i - 1) : ~(IsBrokerCall(trace[k]) /\ trace[k].req = trace[i].req)

\* C5: whatever the broker does to a detached publish unit, nothing
\* escapes the unit, a failure is logged, and the response of its request
\* stays the Accepted response the handler returned.
C5_BackgroundFailureContained ==
    \A id \in 1..Len(unit) :
        unit[id].state = "done" =>
            /\ unit[id].escaped = None
            /\ (unit[id].message_id = None) <=> (unit[id].logged # None)
            /\ IsAccepted(ResponseOf(id))
            /\ ResponseOf(id).error_code = None

C5_Witness ==
    \E a, b \in 1..Len(resp) :
        /\ unit[a].state = "done" /\ unit[a].logged # None
        /\ \E i \in CallsFor(a) :
              trace[i].op = "create_topic" /\ trace[i].outcome = "PermissionDenied"
        /\ unit[b].state = "done" /\ unit[b].logged # None
        /\ \E i \in PublishesFor(b) : trace[i].outcome = "TimeoutError"
        /\ IsAccepted(resp[a]) /\ IsAccepted(resp[b])

\* C7 as stated: once a topic has been ensured in the process, a later
\* ensure of the same topic does not invoke the broker's create operation.
C7_EnsureIsCached ==
    \A i, j \in 1..Len(trace) :
        (/\ i < j
         /\ trace[i].op = "create_topic"
         /\ trace[i].outcome \in {"Created", "AlreadyExists"}
         /\ trace[j].topic = trace[i].topic)
        => trace[j].op # "create_topic"

-----------------------------------------------------------------------------
(* Properties of verify_slack_signature *)

VerifyCalled == vIn # NoVerify

\* the signature header is the MAC of the timestamp header and the body
\* under the configured secret
SignatureIsCorrect ==
    vIn.sig = SlackSignature(vIn.secret, vIn.tsk, vIn.tsv, vIn.body)

TimestampDistance == Abs(vIn.now - vIn.tsv)

\* C10: a timestamp more than 300 seconds from the current time, past or
\* future, is rejected whatever the signature; a timestamp exactly 300
\* seconds away passes the freshness check, so a request with the correct
\* signature over a decodable body is accepted.
C10_ReplayWindow ==
    (VerifyCalled /\ vIn.tsk = "numeric") =>
        /\ TimestampDistance > ReplayWindowSeconds * TicksPerSecond => ~vOut
        /\ (/\ TimestampDistance = ReplayWindowSeconds * TicksPerSecond
            /\ SignatureIsCorrect /\ vIn.body.decodable) => vOut

C10_Witness ==
    /\ VerifyCalled /\ vIn.tsk = "numeric"
    /\ vIn.tsv = vIn.now + ReplayWindowSeconds * TicksPerSecond + 1
    /\ SignatureIsCorrect /\ vIn.body.decodable
    /\ ~vOut

-----------------------------------------------------------------------------
(* Properties of the Pub/Sub wrappers *)

Finished(c) == rcPc[c] = "done"

\* callers whose create_topic_if_not_exists of topic_id the broker answered
\* with Created or AlreadyExists
Arbitrated(topic_id) ==
    {c \in Callers : /\ rcArg[c].topic_id = topic_id
                     /\ rcRes[c].answer \in {"Created", "AlreadyExists"}
                     /\ rcPc[c] # "get_topic"}

\* C6: of the callers that ensure a topic the broker had never seen, however
\* their calls interleave, none observes an error from the ensure, all
\* receive the same topic_path, exactly one of them is told created = TRUE,
\* and the broker created the topic exactly once.
C6_ConcurrentEnsureConverges ==
    \A topic_id \in TopicIds :
        Arbitrated(topic_id) # {} =>
            /\ created[topic_id] = 1
            /\ TopicPath(topic_id) \in topics
            /\ \A c \in Arbitrated(topic_id) :
                  /\ rcRes[c].ensure.raised = None
                  /\ rcRes[c].ensure.handle.topic_path = TopicPath(topic_id)
                  /\ rcRes[c].ensure.handle.created <=> (rcRes[c].answer = "Created")
            /\ Cardinality({c \in Arbitrated(topic_id) :
                              rcRes[c].ensure.handle.created}) = 1

C6_Witness ==
    \E c, d \in Callers :
        /\ c # d /\ Finished(c) /\ Finished(d)
        /\ rcArg[c].topic_id = rcArg[d].topic_id
        /\ rcArg[c].op = "create_topic_if_not_exists"
        /\ rcArg[d].op = "create_topic_if_not_exists"
        /\ rcArg[c].impl = "PubSubService" /\ rcArg[d].impl = "PubSubService"
        /\ rcRes[c].raced
        /\ rcRes[c].ensure.handle.created /\ ~rcRes[d].ensure.handle.created
        /\ rcRes[d].answer = "AlreadyExists" /\ rcRes[d].raised = None

\* a publish_message call that reached the publish primitive and is over
Published(c) ==
    Finished(c) /\ rcArg[c].op = "publish_message" /\ rcRes[c].script # <<>>

\* C8 as stated: when the publish primitive fails with a transient error
\* and would then succeed, publish_message invokes it again and returns the
\* message id; the attempts of one call never exceed the budget.
C8_TransientIsRetried ==
    \A c \in Callers :
        Published(c) =>
            /\ rcRes[c].attempts <= MaxScript
            /\ (rcRes[c].script[1] \in TransientErrors /\ rcRes[c].script[2] = "ok") =>
                  /\ rcRes[c].attempts = 2
                  /\ rcRes[c].message_id # None
                  /\ rcRes[c].raised = None

\* C9: when the publish primitive fails with a permanent error,
\* publish_message makes exactly one publish attempt, raises to its caller
\* and returns no message id.
C9_PermanentFailsAtOnce ==
    \A c \in Callers :
        (Published(c) /\ rcRes[c].script[1] \in PermanentErrors) =>
            /\ rcRes[c].attempts = 1
            /\ rcRes[c].raised # None
            /\ rcRes[c].message_id = None

C9_Witness ==
    \E c \in Callers :
        /\ Published(c) /\ rcArg[c].impl = "PubSubService"
        /\ rcRes[c].script[1] = "PermissionDenied"
        /\ rcRes[c].attempts = 1
        /\ rcRes[c].raised = "MessagePublishException"
        /\ rcRes[c].message_id = None

-----------------------------------------------------------------------------
(* Properties of verify_slack_signature, continued *)

\* both headers are present and the timestamp is a number within 300 s of now
FreshAndSigned ==
    /\ VerifyCalled /\ vIn.tsk = "numeric"
    /\ Truthy(vIn.sig.scheme)
    /\ TimestampDistance <= ReplayWindowSeconds * TicksPerSecond

\* C11 as stated: a request with both headers, a timestamp within 300
\* seconds of now and the signature "v0=" + HMAC(secret, "v0:ts:body") of
\* its raw body is accepted; with the signature of any other body it is
\* rejected.
C11_CorrectDigestAccepted ==
    FreshAndSigned =>
        /\ SignatureIsCorrect => vOut
        /\ (/\ vIn.sig.key = vIn.secret /\ vIn.sig.tsk = vIn.tsk
            /\ vIn.sig.tsv = vIn.tsv /\ vIn.sig.body # vIn.body) => ~vOut

-----------------------------------------------------------------------------
(* Properties of the dispatcher, continued *)

\* C12 as stated: when a signing secret is configured and verification of the
\* request fails, the Slack webhook answers 401 INVALID_SIGNATURE whatever the body
\* holds (a body that would not parse included: nothing is parsed or
\* classified), and no publish is scheduled or made.
C12_UnverifiedIsRejectedUnparsed ==
    (/\ inflight # NoInflight /\ inflight.req.endpoint = "slack"
     /\ Truthy(slack_signing_secret) /\ ~InFlightVerified) =>
        /\ inflight.response =
              _create_error_response(401, "Invalid signature", "INVALID_SIGNATURE")
        /\ NothingPublishedFor(inflight.id)

\* C13 as stated: a Slack event_callback of type message or app_mention
\* whose event carries a non-empty subtype is answered as skipped and is
\* never handed to the publisher.
C13_SubtypeIsSkipped ==
    (/\ SlackCallbackInFlight /\ InFlightVerified
     /\ inflight.req.body.wrapper_ok
     /\ inflight.req.body.event.type \in {"message", "app_mention"}
     /\ Truthy(inflight.req.body.event.subtype)) =>
        /\ inflight.response.status = "ok"
        /\ ~IsAccepted(inflight.response)
        /\ NothingPublishedFor(inflight.id)

\* a url_verification request the handler reads, with a challenge the
\* endpoint's challenge model takes
ValidChallengeInFlight ==
    /\ inflight # NoInflight
    /\ inflight.req.body.decodable /\ inflight.req.body.json = "dict"
    /\ inflight.req.body.type = "url_verification"
    /\ inflight.req.body.challenge \notin {None, NonStr}
    /\ \/ /\ inflight.req.endpoint = "slack" /\ InFlightVerified
          /\ inflight.req.body.challenge # ""
       \/ /\ inflight.req.endpoint = "email"
          /\ inflight.req.body.token \notin {None, NonStr}

\* C20: a valid url_verification payload sent to the Slack or the email
\* webhook is answered 200 with status "ok" and the challenge of the request,
\* unaltered.
C20_ChallengeEchoed ==
    ValidChallengeInFlight =>
        /\ inflight.response.status_code = 200
        /\ inflight.response.status = "ok"
        /\ inflight.response.challenge = inflight.req.body.challenge
        /\ NothingPublishedFor(inflight.id)

C20_Witness ==
    /\ ValidChallengeInFlight
    /\ inflight.req.endpoint = "email"
    /\ inflight.req.body.challenge = "ch2"
    /\ inflight.response.challenge = "ch2"
    /\ inflight.response.status = "ok"

-----------------------------------------------------------------------------
(* Properties of extract_email_content *)

\* the mail given to extract_email_content holds its text in one
\* text/plain part
PlainBodyCalled ==
    /\ xIn # NoMessage /\ xIn.has_payload /\ xIn.payload.has_parts
    /\ Len(xIn.payload.parts) = 1
    /\ xIn.payload.parts[1].mimeType = "text/plain"
    /\ xIn.payload.parts[1].body.kind = "text"

BodyLines == SplitLines(xIn.payload.parts[1].body.text)

ResultLines == SplitLines(xOut)

\* a line 'On ... wrote:' or the forwarded-message marker
AttributionOrForward(line) ==
    LET t == Strip(line) IN
    \/ t = <<"---------- Forwarded message ---------">>
    \/ /\ Len(t) >= 3 /\ t[1] = "On" /\ t[2] = " "
       /\ t[Len(t)] \in {"wrote:", "écrit:"}

QuotedLine(line) == LET t == Strip(line) IN t # <<>> /\ t[1] = ">"

MarkerIndexes == {k \in 1..Len(BodyLines) : AttributionOrForward(BodyLines[k])}

\* line k is the first marker line and some line before it is not blank
FirstMarkerAfterText(k) ==
    /\ k \in MarkerIndexes
    /\ \A j \in MarkerIndexes : k <= j
    /\ \E j \in 1..(k - 1) : Strip(BodyLines[j]) # <<>>

\* C15: when the first attribution or forwarded-message line of a plain-text
\* body is line k and the lines before it are not all blank, the result is
\* exactly those lines joined and trimmed, and holds no marker line.
C15_CutAtFirstMarker ==
    PlainBodyCalled =>
        \A k \in 1..Len(BodyLines) :
            FirstMarkerAfterText(k) =>
                /\ xOut = Strip(JoinLines(SubSeq(BodyLines, 1, k - 1)))
                /\ Len(ResultLines) <= k - 1
                /\ \A i \in 1..Len(ResultLines) : ~AttributionOrForward(ResultLines[i])

C15_Witness ==
    /\ PlainBodyCalled
    /\ BodyLines = << <<"Hello">>, <<"On", " ", "Mon, Jan 1", " ", "wrote:">>,
                      <<">", " ", "old text">> >>
    /\ xOut = <<"Hello">>

\* the body has no marker line and is some unprefixed lines, then only
\* '>'-prefixed lines; n is the number of unprefixed lines
UnprefixedThenQuoted(n) ==
    /\ MarkerIndexes = {}
    /\ 1 <= n /\ n < Len(BodyLines)
    /\ \A j \in 1..n : ~QuotedLine(BodyLines[j])
    /\ \A j \in (n + 1)..Len(BodyLines) : QuotedLine(BodyLines[j])
    /\ \E j \in 1..n : Strip(BodyLines[j]) # <<>>

\* C16 as stated: for a body without marker line that is unprefixed lines
\* followed only by '>'-prefixed lines, the result is the leading unprefixed
\* lines and no '>'-prefixed line.
C16_QuotedTailDropped ==
    PlainBodyCalled =>
        \A n \in 1..Len(BodyLines) :
            UnprefixedThenQuoted(n) =>
                /\ xOut = Strip(JoinLines(SubSeq(BodyLines, 1, n)))
                /\ \A i \in 1..Len(ResultLines) : ~QuotedLine(ResultLines[i])

\* the body has a non-blank line that is not quoted, not a marker and not
\* after a marker
HasUnquotedRemainder ==
    \E j \in 1..Len(BodyLines) :
        /\ Strip(BodyLines[j]) # <<>>
        /\ ~QuotedLine(BodyLines[j])
        /\ \A k \in MarkerIndexes : j < k

\* C17 as stated: when the body has an unquoted remainder, the result holds
\* no quoted line and no marker line.
C17_NoQuotedTextEmitted ==
    (PlainBodyCalled /\ HasUnquotedRemainder) =>
        \A i \in 1..Len(ResultLines) :
            /\ ~QuotedLine(ResultLines[i])
            /\ ~AttributionOrForward(ResultLines[i])

-----------------------------------------------------------------------------
(* Properties of the mail deliveries *)

\* a well-formed Gmail notification was pushed and handled
NotificationHandled ==
    /\ mailIn.path = "push" /\ mailIn.json = "dict" /\ mailIn.data = "dict"
    /\ Truthy(mailIn.emailAddress) /\ Truthy(mailIn.historyId)

\* the mailbox gives no reply to extract: it cannot be read or holds no
\* recent message, its latest message is not a reply, or has no content
NoReplyToExtract(mailbox) ==
    \/ mailbox.access # "ok"
    \/ mailbox.reply_header = None
    \/ extract_email_content(mailbox.message) = <<>>

\* C14 as stated: a notification pushed to POST /email/push whose reply
\* extraction yields no result is answered 200 with processed = false and
\* nothing is published.
C14_NoResultIsNoOp ==
    (NotificationHandled /\ NoReplyToExtract(mailIn.mailbox)) =>
        /\ mailOut.status_code = 200 /\ ~mailOut.processed
        /\ mailOut.wrapper = NoWrapper
        /\ \A i \in 1..Len(trace) : ~IsBrokerCall(trace[i])

\* a reply that carries none of the tenant header names was fetched with its
\* content, and the event made of it is the outcome of the notification
ReplyWithoutTenant ==
    /\ NotificationHandled
    /\ mailIn.mailbox.access = "ok"
    /\ mailIn.mailbox.reply_header \in {"In-Reply-To", "References"}
    /\ mailIn.mailbox.tenant = NoTenant
    /\ extract_email_content(mailIn.mailbox.message) # <<>>

\* the messages of the thread other than the reply, when the thread was fetched
OtherThreadMessages ==
    IF mailIn.mailbox.thread_id = None \/ mailIn.mailbox.thread_raises THEN {}
    ELSE {i \in 1..Len(mailIn.mailbox.thread_messages) :
            mailIn.mailbox.thread_messages[i].id # mailIn.mailbox.message_id}

\* the value under the first tenant header name the i-th thread message carries
TenantValueAt(i) ==
    LET tenant == mailIn.mailbox.thread_messages[i].tenant
        present == {k \in 1..Len(TenantHeaderNames) : tenant[k] # None}
    IN  IF present = {} THEN None
        ELSE tenant[CHOOSE k \in present : \A j \in present : k <= j]

First(indexes) == CHOOSE i \in indexes : \A j \in indexes : i <= j

EventOrgId == mailOut.wrapper.event.org_id

ExtractionSucceeded ==
    /\ mailOut.wrapper # NoWrapper
    /\ mailOut.wrapper.event.body = Some(extract_email_content(mailIn.mailbox.message))

BodyOf(wrapper) ==
    IF wrapper.source = "slack" THEN wrapper.event.text ELSE wrapper.event.body

\* C19 as stated: every event handed to the publisher, on the Slack
\* webhook, email webhook, /email/push and pull-subscription paths, has a
\* body text that is neither empty nor whitespace-only.
C19_PublishedBodyNotBlank ==
    /\ \A i \in 1..Len(queue) : ~TextIsEmpty(BodyOf(queue[i].wrapper))
    /\ \A i \in 1..Len(trace) :
          trace[i].op = "publish" => ~TextIsEmpty(BodyOf(trace[i].wrapper))
    /\ mailOut.wrapper # NoWrapper => ~TextIsEmpty(BodyOf(mailOut.wrapper))

-----------------------------------------------------------------------------
(* Properties of the two webhook handlers: parsing and classification *)

\* the request in flight got past verification, or its endpoint has none
PastVerification ==
    /\ inflight # NoInflight
    /\ inflight.req.endpoint = "slack" => InFlightVerified

\* the bytes of the body are not a JSON document
NotJson(body) == ~body.decodable \/ body.json = "invalid"

\* C21 as stated: a request body that is not parseable as JSON is answered
\* 400 by the Slack webhook (once past verification) and by the email
\* webhook, and no publish is scheduled.
C21_UnparseableIs400 ==
    (PastVerification /\ NotJson(inflight.req.body)) =>
        /\ inflight.response.status_code = 400
        /\ NothingPublishedFor(inflight.id)

\* C22 as stated: every request to a webhook handler ends with one JSON
\* response of status 200, 400, 401 or 500 that the handler itself returned:
\* no exception leaves the handler, an unexpected one (also one raised while
\* an error response is built) is turned into the handler's 500 error body.
C22_NoExceptionEscapes ==
    inflight # NoInflight =>
        /\ inflight.response.status_code \in {200, 400, 401, 500}
        /\ inflight.response # general_exception_handler

\* the handler reads the body in flight as a JSON object whose type is
\* neither url_verification nor the callback type of the endpoint
UnrecognizedInFlight ==
    /\ PastVerification
    /\ inflight.req.body.decodable /\ inflight.req.body.json = "dict"
    /\ inflight.req.body.type # "url_verification"
    /\ inflight.req.endpoint = "slack" => inflight.req.body.type # "event_callback"
    /\ inflight.req.endpoint = "email" => inflight.req.body.type # "email_callback"

\* C23: a JSON object payload whose type is absent or is neither
\* url_verification nor the endpoint's callback type is answered 200 with
\* status "ok" and a message; nothing is normalized, scheduled or published.
C23_UnrecognizedIsNoOp ==
    UnrecognizedInFlight =>
        /\ inflight.response.status_code = 200
        /\ inflight.response.status = "ok"
        /\ inflight.response.message # None
        /\ inflight.response.challenge = None
        /\ NothingPublishedFor(inflight.id)

C23_Witness ==
    /\ UnrecognizedInFlight
    /\ inflight.req.endpoint = "slack" /\ Truthy(slack_signing_secret)
    /\ inflight.req.body.type = "other"
    /\ inflight.response.message = "Unknown event type"

\* the email webhook reads the body in flight as an email_callback payload
EmailCallbackInFlight ==
    /\ inflight # NoInflight /\ inflight.req.endpoint = "email"
    /\ inflight.req.body.decodable /\ inflight.req.body.json = "dict"
    /\ inflight.req.body.type = "email_callback"

\* the event is not an email_reply, or its body is absent, empty or blank
NotAReplyWithText(event) == event.type # "email_reply" \/ TextIsEmpty(event.body)

SkippedResponse(response) ==
    /\ response.status_code = 200 /\ response.status = "ok"
    /\ response.message \in {"Unsupported event skipped", "Empty email message skipped"}

\* C24 as stated: for every email_callback payload a publish is scheduled
\* only if the event type is email_reply and the body is non-empty after
\* trimming; any other type and any empty or blank body is answered 200
\* "skipped" with no publish.
C24_AsStated ==
    EmailCallbackInFlight =>
        /\ ~NothingPublishedFor(inflight.id) => ~NotAReplyWithText(inflight.req.body.event)
        /\ NotAReplyWithText(inflight.req.body.event) =>
              /\ SkippedResponse(inflight.response)
              /\ NothingPublishedFor(inflight.id)

\* C24: for every email_callback payload a publish is scheduled only if the
\* event type is email_reply and the body is non-empty after trimming; any
\* other type and any empty or blank body causes no publish, and is answered
\* 200 "skipped" when the payload validates as an EmailEventWrapper.
C24_OnlyRepliesWithText ==
    EmailCallbackInFlight =>
        /\ ~NothingPublishedFor(inflight.id) => ~NotAReplyWithText(inflight.req.body.event)
        /\ NotAReplyWithText(inflight.req.body.event) =>
              /\ NothingPublishedFor(inflight.id)
              /\ inflight.req.body.wrapper_ok => SkippedResponse(inflight.response)

C24_Witness ==
    /\ EmailCallbackInFlight /\ inflight.req.body.wrapper_ok
    /\ inflight.req.body.event.type = "email_reply"
    /\ inflight.req.body.event.body = Some(<<" ", " ">>)
    /\ inflight.response = OkResponse("Empty email message skipped", None)

-----------------------------------------------------------------------------
(* Properties of the mail deliveries, continued *)

\* the answer of POST /email/push to a notification whose event was published
PushedAndPublished(wrapper) ==
    MailOutcome(200, "ok", TRUE, "mid", None, None, wrapper)

\* C25 as stated: for a notification pushed to POST /email/push that
\* produces an event, the response is the same whether the broker steps of
\* the publish succeed or fail.
C25_PublishFailureNotVisible ==
    (mailIn.path = "push" /\ mailOut.wrapper # NoWrapper) =>
        mailOut = PushedAndPublished(mailOut.wrapper)

-----------------------------------------------------------------------------
(* Properties of the publisher, continued *)

\* C26 as stated: every message publish_message hands to the broker's
\* publish primitive carries the fixed metadata attributes source, version
\* and published_at besides the routing attributes of the caller.
C26_MetadataOnEveryMessage ==
    \A i \in 1..Len(trace) :
        trace[i].op = "publish" =>
            /\ {"source", "version", "published_at"} \subseteq DOMAIN trace[i].attributes
            /\ {"source_service", "event_type", "message_type"}
                  \subseteq DOMAIN trace[i].attributes

-----------------------------------------------------------------------------
(* Properties of the Slack signature check, continued *)

\* the Slack request in flight fails the verification that is configured
RejectedInFlight ==
    /\ inflight # NoInflight /\ inflight.req.endpoint = "slack"
    /\ Truthy(slack_signing_secret) /\ ~InFlightVerified

\* why verify_slack_signature turns the request in flight down
RejectionCause ==
    LET req == inflight.req IN
    IF ~Truthy(req.tsk) \/ ~Truthy(req.sig.scheme) THEN "missing header"
    ELSE IF FloatRaises(req.tsk) THEN "malformed timestamp"
    ELSE IF Stale(req.tsk, req.tsv, inflight.now) THEN "stale timestamp"
    ELSE "digest mismatch"

\* what the client may tell a response by
Visible(response) ==
    <<response.status_code, response.status, response.message, response.error_code,
      response.challenge>>

\* the answer to a request that carries neither header and no readable body
AnswerWithoutHeaders ==
    slack_webhook(SlackRequest("none", InvalidJsonBody), slack_signing_secret, BaseNow).response

Classified(body) == slack_webhook(SlackRequest("signed", body), "s1", BaseNow)

\* C28: without a signing secret the Slack webhook verifies nothing and
\* answers no 401: every request, whatever its headers, is answered as its
\* body is parsed and classified.  With a signing secret, a request that
\* does not pass verify_slack_signature is not parsed: its answer does not
\* depend on its body, and nothing is scheduled or published for it.
C28_VerificationFollowsSecret ==
    (inflight # NoInflight /\ inflight.req.endpoint = "slack") =>
        /\ ~Truthy(slack_signing_secret) =>
              /\ inflight.response.status_code # 401
              /\ inflight.response = Classified(inflight.req.body).response
              /\ NothingPublishedFor(inflight.id)
                    <=> Classified(inflight.req.body).dispatch = "none"
        /\ (Truthy(slack_signing_secret) /\ ~InFlightVerified) =>
              /\ inflight.response = AnswerWithoutHeaders
              /\ NothingPublishedFor(inflight.id)

\* without a secret, a message event under a signature made with some other
\* key is queued for publishing
C28_Witness ==
    /\ SlackCallbackInFlight /\ ~Truthy(slack_signing_secret)
    /\ inflight.req.sig.key = "s2"
    /\ IsAccepted(inflight.response)
    /\ ~NothingPublishedFor(inflight.id)

-----------------------------------------------------------------------------
(* Properties of extract_email_content, continued *)

\* the text of the first text/plain part met going through the parts depth
\* first, <<>> if there is none
RECURSIVE FirstPlainDepthFirst(_, _)
FirstPlainDepthFirst(parts, i) ==
    IF i > Len(parts) THEN <<>>
    ELSE LET own == IF parts[i].mimeType = "text/plain" /\ parts[i].body.kind = "text"
                    THEN parts[i].body.text ELSE <<>>
             inner == FirstPlainDepthFirst(parts[i].parts, 1)
         IN  IF own # <<>> THEN own
             ELSE IF inner # <<>> THEN inner
             ELSE FirstPlainDepthFirst(parts, i + 1)

\* every part of the message, at any depth, has readable data or none
RECURSIVE PartsReadable(_, _)
PartsReadable(parts, i) ==
    \/ i > Len(parts)
    \/ /\ parts[i].body.kind \in {"text", "absent"}
       /\ PartsReadable(parts[i].parts, 1)
       /\ PartsReadable(parts, i + 1)

\* C29 as stated: the body extract_email_content works on is the first
\* text/plain part found going depth first through the parts of the
\* message, text/plain parts inside multipart parts included.
C29_FirstPlainPartDepthFirst ==
    (/\ xIn # NoMessage /\ xIn.has_payload /\ xIn.payload.has_parts
     /\ PartsReadable(xIn.payload.parts, 1)
     /\ FirstPlainDepthFirst(xIn.payload.parts, 1) # <<>>) =>
        xOut = extract_email_content(
                   PlainMessage(FirstPlainDepthFirst(xIn.payload.parts, 1), xIn.snippet))

\* the lines of the body before its first marker line, all of them without one
LinesBeforeMarker ==
    IF MarkerIndexes = {} THEN BodyLines
    ELSE SubSeq(BodyLines, 1, (CHOOSE k \in MarkerIndexes : \A j \in MarkerIndexes : k <= j) - 1)

\* the lines of the body up to its last line that is not '>'-prefixed
LinesUpToLastUnquoted ==
    LET unquoted == {k \in 1..Len(BodyLines) : ~QuotedLine(BodyLines[k])} IN
    IF unquoted = {} THEN <<>>
    ELSE SubSeq(BodyLines, 1, CHOOSE k \in unquoted : \A j \in unquoted : j <= k)

\* both ways of stripping the quoted text leave nothing of a body that is there
StrippedToNothing ==
    /\ PlainBodyCalled
    /\ xIn.payload.parts[1].body.text # <<>>
    /\ Strip(JoinLines(LinesBeforeMarker)) = <<>>
    /\ Strip(JoinLines(LinesUpToLastUnquoted)) = <<>>

\* C30 as stated: when stripping the quoted text leaves nothing on the
\* marker path and on the bottom-up '>' path, and the message has a
\* non-empty snippet, extract_email_content returns the snippet.
C30_SnippetWhenNothingLeft ==
    (StrippedToNothing /\ xIn.snippet # <<>>) => xOut = xIn.snippet

-----------------------------------------------------------------------------
(* The tenant of a reply and its thread *)

\* the accepted header names under which the fetched message holds a
\* non-empty value
OwnValued == {k \in 1..Len(TenantHeaderNames) : Truthy(mailIn.mailbox.tenant[k])}

\* the accepted header names the fetched message carries
OwnPresent == {k \in 1..Len(TenantHeaderNames) : mailIn.mailbox.tenant[k] # None}

\* C31 as stated: when the message itself carries an accepted tenant header
\* with a non-empty value, the thread is never fetched and org_id is the
\* value under the first accepted name present; the thread is fetched only
\* when the message holds no tenant value and is a reply.
C31_OwnTenantUsedDirectly ==
    NotificationHandled =>
        /\ OwnValued # {} =>
              /\ ~ThreadFetched(mailIn.mailbox)
              /\ ExtractionSucceeded =>
                    EventOrgId = mailIn.mailbox.tenant[First(OwnPresent)]
        /\ ThreadFetched(mailIn.mailbox) =>
              OwnValued = {} /\ mailIn.mailbox.reply_header # None

-----------------------------------------------------------------------------
(* Properties of the attributes of a published email event *)

\* the broker publishes made by publish_email_event
EmailPublishes ==
    {i \in 1..Len(trace) :
        trace[i].op = "publish" /\ trace[i].topic = EMAIL_REPLY_EVENT_TOPIC}

\* C32: for every email event published by publish_email_event, the
\* message attributes hold org_id exactly when the event's org_id is present
\* and non-empty, and then with the event's value; they always hold
\* source_service, event_type, project_id, from_email and to_email.
C32_OrgIdAttributeIffPresent ==
    \A i \in EmailPublishes :
        LET attributes == trace[i].attributes
            org_id == trace[i].wrapper.event.org_id
        IN  /\ ("org_id" \in DOMAIN attributes) <=> Truthy(org_id)
            /\ "org_id" \in DOMAIN attributes => attributes.org_id = org_id
            /\ {"source_service", "event_type", "project_id", "from_email", "to_email"}
                  \subseteq DOMAIN attributes

\* an event with a tenant was published with its org_id attribute
C32_Witness ==
    \E i \in EmailPublishes :
        /\ trace[i].wrapper.event.org_id = "acme-42"
        /\ trace[i].attributes.org_id = "acme-42"
        /\ trace[i].outcome = "ok"

-----------------------------------------------------------------------------
(* Properties of the Slack filter chain *)

\* the skip conditions an event of the request matches, by their place in
\* the chain: 1 bot/app id, 2 unsupported type, 3 subtype, 4 empty text
SkipConditions(event) ==
    {k \in 1..4 :
        \/ k = 1 /\ (Truthy(event.bot_id) \/ Truthy(event.app_id))
        \/ k = 2 /\ event.type \notin {"message", "app_mention"}
        \/ k = 3 /\ Truthy(event.subtype)
        \/ k = 4 /\ TextIsEmpty(event.text)}

SkipMessages ==
    <<"Bot event skipped", "Unsupported event skipped", "Message subtype skipped",
      "Empty message skipped">>

\* C33 as stated: an event matching several skip conditions is answered
\* with the message of the first applicable one in the order bot/app id,
\* unsupported type, subtype, empty text.
C33_FirstSkipConditionAnswers ==
    (/\ SlackCallbackInFlight /\ InFlightVerified
     /\ inflight.req.body.wrapper_ok
     /\ SkipConditions(inflight.req.body.event) # {}) =>
        /\ inflight.response.status = "ok"
        /\ inflight.response.message =
              SkipMessages[First(SkipConditions(inflight.req.body.event))]

-----------------------------------------------------------------------------
(* Properties of PubSubService.publish_message *)

\* caller c is in PubSubService.publish_message, or has left it
InPublishMessage(c) ==
    /\ rcArg[c].op = "publish_message" /\ rcArg[c].impl = "PubSubService"
    /\ rcPc[c] # "idle"

\* the publish primitive is about to be invoked, or was invoked, by the call
PublishInvoked(c) == rcPc[c] = "publish" \/ rcRes[c].script # <<>>

\* C34: within one PubSubService.publish_message call the publish primitive
\* is invoked only after create_topic_if_not_exists has returned the topic in
\* that call; if the provisioning raises (permission denied or any other
\* create error) publish_message raises and the primitive is never invoked.
C34_PublishOnlyAfterEnsure ==
    \A c \in Callers :
        InPublishMessage(c) =>
            /\ PublishInvoked(c) =>
                  /\ rcRes[c].ensure.raised = None
                  /\ rcRes[c].ensure.handle.topic_id = rcArg[c].topic_id
                  /\ rcRes[c].answer \in {"Created", "AlreadyExists"}
            /\ rcRes[c].answer \in {"PermissionDenied", "ServiceUnavailable"} =>
                  /\ Finished(c)
                  /\ rcRes[c].raised = "MessagePublishException"
                  /\ ~PublishInvoked(c) /\ rcRes[c].attempts = 0

\* one call was refused the topic and raised without publishing while
\* another call published after its ensure had returned
C34_Witness ==
    \E c, d \in Callers :
        /\ InPublishMessage(c) /\ InPublishMessage(d)
        /\ rcRes[c].answer = "PermissionDenied" /\ Finished(c)
        /\ rcRes[c].raised = "MessagePublishException" /\ rcRes[c].script = <<>>
        /\ Published(d) /\ rcRes[d].answer = "Created"
        /\ rcRes[d].message_id = "mid"

-----------------------------------------------------------------------------
(* Properties of verify_slack_signature: errors *)

\* what the try block of the call ended with
TryOutcome ==
    SignatureChecked(vIn.tsk, vIn.tsv, vIn.sig, vIn.body, vIn.secret, vIn.now)

\* C35: verify_slack_signature never raises: for every combination of
\* headers, body and secret, a non-numeric timestamp header and an
\* undecodable body included, it returns a boolean, and it returns false
\* whenever an error occurs inside it.
C35_VerifyNeverRaises ==
    VerifyCalled =>
        /\ vIn.raised = None
        /\ vOut \in BOOLEAN
        /\ TryOutcome.raised # None => vOut = FALSE

\* each of the errors of the try block has occurred and was answered False
C35_Witness ==
    /\ VerifyCalled /\ ~vOut /\ vIn.raised = None
    /\ TryOutcome.raised = "UnicodeDecodeError"
    /\ vIn.tsk = "numeric" /\ SignatureIsCorrect

-----------------------------------------------------------------------------
(* Properties of the pulled messages *)

\* a message pulled from the email-replies subscription was handled
Pulled == mailIn.path = "pull"

\* json.loads(message.data.decode('utf-8')) raises
DecodingRaises == mailIn.data \in {"empty", "invalid"}

\* the converted event reached the target topic
PublishedToTarget ==
    \E i \in 1..Len(trace) :
        /\ trace[i].op = "publish" /\ trace[i].outcome = "ok"
        /\ trace[i].topic = EMAIL_TARGET_TOPIC
        /\ trace[i].wrapper = mailOut.wrapper

\* an event was made of the message and its publish raised
PublishingRaises == mailOut.wrapper # NoWrapper /\ ~PublishedToTarget

\* C36 as stated: a pulled message is acked only if its event was published
\* to the target topic or it could not be converted; if decoding,
\* conversion or publishing raises, it is nacked and not acked.
C36_AsStated ==
    Pulled =>
        /\ mailOut.settled \in {"ack", "nack"}
        /\ mailOut.settled = "ack" =>
              PublishedToTarget \/ _convert_to_email_event(mailIn) = NoWrapper
        /\ (DecodingRaises \/ ConversionRaises(mailIn) \/ PublishingRaises) =>
              mailOut.settled = "nack"

\* C36: a pulled message is acked only if its event was published to the
\* target topic or the conversion returned no event (from or body missing,
\* or an error raised inside the conversion, which catches it); if decoding
\* or publishing raises, it is nacked and not acked, so a message whose
\* publish failed is never acknowledged.
C36_AckOnlyPublishedOrUnconvertible ==
    Pulled =>
        /\ mailOut.settled \in {"ack", "nack"}
        /\ mailOut.settled = "ack" =>
              PublishedToTarget \/ _convert_to_email_event(mailIn) = NoWrapper
        /\ (DecodingRaises \/ PublishingRaises) => mailOut.settled = "nack"
        /\ (~DecodingRaises /\ ConversionRaises(mailIn)) => mailOut.settled = "ack"

\* a message was converted, its publish was refused, and it was nacked
C36_Witness ==
    /\ Pulled /\ PublishingRaises /\ mailOut.settled = "nack"
    /\ mailIn.from = MailSender
    /\ \E i \in 1..Len(trace) : trace[i].op = "create_topic"
                                 /\ trace[i].outcome = "PermissionDenied"

-----------------------------------------------------------------------------
(* SpecListener: callers of the EmailSubscriptionService, each a process
   with a service object of its own, against one broker.  A caller runs
   without interruption from one suspension point (the coroutine not yet
   started, asyncio.sleep) to the next; the broker calls of different
   processes interleave. *)

ListenerOperations ==
    {"create_subscription_if_not_exists", "start_subscription_listener"}

\* what the broker does to get_subscription and create_subscription besides
\* answering from what it holds
SubscriptionFaults == {"none", "PermissionDenied"}

\* subscriber.pull(..., timeout=30.0)
PullOutcomes == {"messages", "empty", "DeadlineExceeded", "ServiceUnavailable"}

\* the locals of a caller: the method it called, what
\* create_subscription_if_not_exists returned to it, what the method raised
\* and from what, the outcome of its last pull, whether
\* stop_subscription_listener was called and whether a pull was issued after
NoListener ==
    [op |-> None, returned |-> FALSE, created |-> FALSE, raised |-> None,
     cause |-> None, pull |-> None, stop_called |-> FALSE,
     pulled_after_stop |-> FALSE]

InitListener ==
    /\ slack_signing_secret = ""
    /\ publisher = "ready"
    /\ nextId = 1
    /\ inflight = NoInflight
    /\ resp = <<>> /\ queue = <<>> /\ unit = <<>> /\ trace = <<>>
    /\ topics = {}
    /\ vIn = NoVerify /\ vOut = FALSE
    /\ MailIdle
    /\ rcPc = <<>> /\ rcArg = <<>> /\ rcRes = <<>> /\ created = <<>>
    /\ lsPc = [p \in Callers |-> "idle"]
    /\ lsRes = [p \in Callers |-> NoListener]
    /\ is_running = [p \in Callers |-> FALSE]
    /\ subscription = FALSE

\* `except Exception as e: raise SubscriptionException(...)` of
\* create_subscription_if_not_exists, passed on by start_subscription_listener
SubscriptionRaised(p, cause) ==
    /\ lsRes' = [lsRes EXCEPT ![p].raised = "SubscriptionException", ![p].cause = cause]
    /\ lsPc' = [lsPc EXCEPT ![p] = "failed"]
    /\ UNCHANGED is_running

\* create_subscription_if_not_exists returns; start_subscription_listener
\* goes on to `self._is_running = True` and the loop
SubscriptionReturned(p, was_created) ==
    /\ lsRes' = [lsRes EXCEPT ![p].returned = TRUE, ![p].created = was_created]
    /\ IF lsRes[p].op = "start_subscription_listener"
       THEN /\ is_running' = [is_running EXCEPT ![p] = TRUE]
            /\ lsPc' = [lsPc EXCEPT ![p] = "loop"]
       ELSE /\ lsPc' = [lsPc EXCEPT ![p] = "done"]
            /\ UNCHANGED is_running

\* the method is called: the coroutine exists and has not run yet
Invoke(p) ==
    /\ lsPc[p] = "idle"
    /\ \E op \in ListenerOperations :
          lsRes' = [lsRes EXCEPT ![p].op = op]
    /\ lsPc' = [lsPc EXCEPT ![p] = "invoked"]
    /\ UNCHANGED <<pipelineVars, topics, verifyVars, raceVars, mailVars,
                   is_running, subscription>>

\* subscriber.get_subscription(...)
GetSubscription(p) ==
    /\ lsPc[p] = "invoked"
    /\ \E fault \in SubscriptionFaults :
          IF fault # "none" THEN SubscriptionRaised(p, fault)
          ELSE IF subscription THEN SubscriptionReturned(p, FALSE)
          ELSE /\ lsPc' = [lsPc EXCEPT ![p] = "create_subscription"]
               /\ UNCHANGED <<lsRes, is_running>>
    /\ UNCHANGED <<pipelineVars, topics, verifyVars, raceVars, mailVars, subscription>>

\* subscriber.create_subscription(...) after NotFound
CreateSubscription(p) ==
    /\ lsPc[p] = "create_subscription"
    /\ \E fault \in SubscriptionFaults :
          LET answer == IF fault # "none" THEN fault
                        ELSE IF subscription THEN "AlreadyExists"
                        ELSE "Created"
          IN  /\ subscription' = (subscription \/ answer = "Created")
              /\ IF answer = "Created" THEN SubscriptionReturned(p, TRUE)
                 ELSE SubscriptionRaised(p, answer)
    /\ UNCHANGED <<pipelineVars, topics, verifyVars, raceVars, mailVars>>

\* `while self._is_running:` entered: one pull, the messages it returned
\* processed, up to the sleep or the `continue`
Pull(p) ==
    /\ lsPc[p] = "loop" /\ is_running[p]
    /\ \E outcome \in PullOutcomes :
          /\ lsRes' = [lsRes EXCEPT ![p].pull = outcome,
                                    ![p].pulled_after_stop = lsRes[p].stop_called]
          /\ lsPc' = [lsPc EXCEPT ![p] =
                        IF outcome = "DeadlineExceeded" THEN "loop"
                        ELSE IF outcome = "ServiceUnavailable" THEN "sleep5"
                        ELSE "sleep1"]
    /\ UNCHANGED <<pipelineVars, topics, verifyVars, raceVars, mailVars,
                   is_running, subscription>>

\* asyncio.sleep(1) or asyncio.sleep(5) is over
Wake(p) ==
    /\ lsPc[p] \in {"sleep1", "sleep5"}
    /\ lsPc' = [lsPc EXCEPT ![p] = "loop"]
    /\ UNCHANGED <<pipelineVars, topics, verifyVars, raceVars, mailVars,
                   lsRes, is_running, subscription>>

\* `while self._is_running:` left
Exit(p) ==
    /\ lsPc[p] = "loop" /\ ~is_running[p]
    /\ lsPc' = [lsPc EXCEPT ![p] = "exited"]
    /\ UNCHANGED <<pipelineVars, topics, verifyVars, raceVars, mailVars,
                   lsRes, is_running, subscription>>

\* the positions at which another coroutine of the process runs
SuspensionPoints == {"invoked", "sleep1", "sleep5"}

\* stop_subscription_listener()
Stop(p) ==
    /\ lsRes[p].op = "start_subscription_listener"
    /\ lsPc[p] \in SuspensionPoints
    /\ ~lsRes[p].stop_called
    /\ is_running' = [is_running EXCEPT ![p] = FALSE]
    /\ lsRes' = [lsRes EXCEPT ![p].stop_called = TRUE]
    /\ UNCHANGED <<pipelineVars, topics, verifyVars, raceVars, mailVars,
                   lsPc, subscription>>

\* the steps of the coroutine of caller p
Run(p) ==
    GetSubscription(p) \/ CreateSubscription(p) \/ Pull(p) \/ Wake(p) \/ Exit(p)

NextListener == \E p \in Callers : Invoke(p) \/ Run(p) \/ Stop(p)

SpecListener == InitListener /\ [][NextListener]_vars

\* the event loop runs a coroutine that can run
FairListener == SpecListener /\ \A p \in Callers : WF_vars(Run(p))

-----------------------------------------------------------------------------
(* Properties of the subscription listener *)

\* C37 as stated: if stop_subscription_listener is called at any point
\* after start_subscription_listener was invoked, before the first
\* iteration of the loop included, the loop eventually exits, and no pull is
\* issued once the iteration in progress is over, whatever the pulls raise.
C37_StopEndsListener ==
    /\ [](\A p \in Callers : ~lsRes[p].pulled_after_stop)
    /\ \A p \in Callers :
          lsRes[p].stop_called ~> lsPc[p] \in {"exited", "failed"}

-----------------------------------------------------------------------------
(* Properties of create_subscription_if_not_exists *)

\* create_subscription_if_not_exists of caller p is over
Ensured(p) == lsRes[p].returned \/ lsRes[p].raised # None

\* C38 as stated: for any interleaving of two callers that start when the
\* subscription is absent, the broker ends with one subscription, at most
\* one caller is told created = true, and no caller fails with
\* SubscriptionException because the subscription came into existence
\* between its existence check and its create call.
C38_ConcurrentCreateConverges ==
    /\ Cardinality({p \in Callers : lsRes[p].created}) <= 1
    /\ \A p \in Callers :
          /\ lsRes[p].returned => subscription
          /\ Ensured(p) => lsRes[p].cause # "AlreadyExists"

-----------------------------------------------------------------------------
(* Properties of POST /email/push: notifications that name no mailbox *)

\* a push envelope was handled
Pushed == mailIn.path = "push" /\ mailIn.json = "dict"

\* the decoded notification lacks emailAddress or historyId
LacksFields ==
    \/ mailIn.data = "empty"
    \/ /\ mailIn.data = "dict"
       /\ ~Truthy(mailIn.emailAddress) \/ ~Truthy(mailIn.historyId)

\* C39: on POST /email/push a decoded notification lacking emailAddress or
\* historyId, an envelope with empty data included, causes no mail-provider
\* call and no broker call and is answered 200 with status "ok" and
\* processed = false; data that is not base64-encoded JSON is answered 400
\* with no further action.
C39_IncompleteNotificationIsNoOp ==
    /\ (Pushed /\ LacksFields) =>
          /\ mailOut.status_code = 200 /\ mailOut.status = "ok"
          /\ ~mailOut.processed
          /\ trace = <<>>
    /\ (Pushed /\ mailIn.data = "invalid") =>
          /\ mailOut.status_code = 400
          /\ mailOut.wrapper = NoWrapper
          /\ trace = <<>>

\* a notification without historyId, for a mailbox whose latest message is a
\* reply with content, was answered without any call
C39_Witness ==
    /\ Pushed /\ mailIn.data = "dict"
    /\ mailIn.emailAddress = "u@d" /\ mailIn.historyId = None
    /\ mailIn.mailbox.access = "ok" /\ mailIn.mailbox.reply_header = "In-Reply-To"
    /\ mailOut.status_code = 200 /\ mailOut.status = "ok" /\ ~mailOut.processed
    /\ trace = <<>>

====
